---- MODULE Spec2Model ----
(***************************************************************************)
(* State-machine model of the AIClient2API gateway core:                   *)
(*   - ProviderPoolManager (src/src/common.js): LRU selection, error       *)
(*     budget, health checks, debounced persistence of the pool file;      *)
(*   - the /v1/messages request pipeline (src/unnamed/part_006,            *)
(*     src/src/common.js);                                                 *)
(*   - parseAwsEventStreamBuffer (src/src/claude/kiro-stream-parser.js);   *)
(*   - buildCodewhispererRequest (src/src/claude/kiro-request-builder.js). *)
(***************************************************************************)
EXTENDS Integers, Sequences, FiniteSets, TLC

VARIABLES
    providerStatus,  \* ProviderPoolManager.providerStatus: sequence of account configs
    now,             \* the wall clock read by new Date()
    pendingSave,     \* ProviderPoolManager.pendingSave
    saveTimer,       \* ProviderPoolManager.saveTimer: Null or the time the timeout fires
    flushes,         \* executions of _flushPendingSaves that are awaiting file I/O
    file,            \* configs/provider_pools.json: [shape, pools]
    reqs,            \* request handlers: slot -> position and locals of requestHandler
    reqCount,        \* number of requests accepted so far
    hc,              \* performHealthChecks: [idx, wait, now, done], the loop position and its locals
    uiProbe,         \* UI health-check endpoint: index of the account whose forced probe is awaited (0: none)
    uiCount,      \* number of UI operations (health checks, enable/disable) so far
    failStreak,      \* observer: [uuid, n] the last n finished requests were served by uuid and failed
    lastMutation,    \* observer: time of the last pool mutation (Null: none yet)
    ps,              \* stream parser harness: position and data of the two-read experiment
    bs,              \* request builder harness: the request and the envelope built from it
    sh,              \* handleStreamRequest: position, the upstream stream and the frames written
    er,              \* error responses: the failing stage of a request and the body written for it
    au,              \* KiroAuthManager: the token fields, the credentials file and the refresh in flight
    dp,              \* Kiro device-code authorisation: the polling tasks and their timers
    tc               \* deduplicateToolCalls: the list of tool calls and the result

poolVars == <<providerStatus, now, pendingSave, saveTimer, flushes, file, reqs, reqCount,
              hc, uiProbe, uiCount, failStreak, lastMutation>>
vars == <<providerStatus, now, pendingSave, saveTimer, flushes, file, reqs, reqCount,
          hc, uiProbe, uiCount, failStreak, lastMutation, ps, bs, sh, er, au, dp, tc>>

(***************************************************************************)
(* Bounds of the model                                                     *)
(***************************************************************************)
NumAccounts == 2
NumSlots == 2
MaxRequests == 3
MaxUiOps == 1
MaxTime == 3
MaxRefreshes == 2
MaxStarts == 2
MaxToolCalls == 3
MaxPollClock == 8

(***************************************************************************)
(* Program constants                                                       *)
(***************************************************************************)
maxErrorCount == 3
\* the interval and the expiry that handleKiroBuilderIDDeviceCode passes to the
\* poller (5 s and 300 s in the code) and the extra sleep after slow_down (5 s),
\* in poll intervals; the expiry is cut to three intervals
pollInterval == 1
pollExpiresIn == 3
slowDownExtra == 1
\* the nearMinutes of isExpiryDateNear (10 minutes in the code), in clock ticks
cronNearMinutes == 1
\* saveDebounceTime and healthCheckInterval in clock ticks (1000 ms and 10 min in the code)
saveDebounceTime == 1
healthCheckInterval == 2

Null == -1           \* null / undefined for times and uuids
StartTime == 2       \* the clock at start-up; time 1 is "before this run"
Models == {"m1", "m2"}
NoModel == "none"    \* requestedModel = null, healthCheckModel = null
NoMsg == "none"      \* errorMessage = null
Uuids == 1..NumAccounts
Slots == 1..NumSlots

Min(a, b) == IF a <= b THEN a ELSE b

(***************************************************************************)
(* ProviderPoolManager: pure parts                                         *)
(***************************************************************************)
\* initializeProviderStatus: the defaults given to a config read from the pool file
NewAccount(u, nsm, ch) ==
    [uuid |-> u, isHealthy |-> TRUE, isDisabled |-> FALSE, lastUsed |-> Null,
     usageCount |-> 0, errorCount |-> 0, lastErrorTime |-> Null,
     lastErrorMessage |-> NoMsg, lastHealthCheckTime |-> Null,
     lastHealthCheckModel |-> NoModel, notSupportedModels |-> nsm, checkHealth |-> ch]

\* _findProvider: index of the account with this uuid, 0 when uuid is undefined or unknown
FindProvider(pool, u) ==
    IF u = Null \/ ~(\E i \in 1..Len(pool) : pool[i].uuid = u) THEN 0
    ELSE CHOOSE i \in 1..Len(pool) : pool[i].uuid = u /\ \A j \in 1..(i-1) : pool[j].uuid # u

\* IsEligible without the isDisabled filter
IsEligibleIgnoringDisabled(c, requestedModel) ==
    /\ c.isHealthy
    /\ (requestedModel # NoModel => requestedModel \notin c.notSupportedModels)

\* selectProvider, the two filters
IsEligible(c, requestedModel) ==
    /\ c.isHealthy /\ ~c.isDisabled
    /\ (requestedModel # NoModel => requestedModel \notin c.notSupportedModels)

\* LruTime with a never-used account sorting last instead of first
LruTimeNullLast(c) == IF c.lastUsed = Null THEN MaxTime + 1 ELSE c.lastUsed

\* selectProvider, the sort key: lastUsed ? new Date(lastUsed).getTime() : 0
LruTime(c) == IF c.lastUsed = Null THEN 0 ELSE c.lastUsed

\* LruCompare with the operands of the time difference exchanged
LruCompareNewestFirst(a, b) ==
    IF LruTime(a) # LruTime(b) THEN LruTime(b) - LruTime(a)
    ELSE a.usageCount - b.usageCount

\* selectProvider, the sort comparator: negative, zero or positive
LruCompare(a, b) ==
    IF LruTime(a) # LruTime(b) THEN LruTime(a) - LruTime(b)
    ELSE a.usageCount - b.usageCount

\* SelectIndex without the sort: the first eligible account of the pool
SelectFirstEligible(pool, requestedModel) ==
    LET elig == {i \in 1..Len(pool) : IsEligible(pool[i], requestedModel)}
    IN IF elig = {} THEN 0 ELSE CHOOSE i \in elig : \A j \in elig : i <= j

\* selectProvider: index of the account returned, 0 for null.  The stable sort
\* puts first the earliest (in pool order) of the comparator-minimal accounts.
SelectIndex(pool, requestedModel) ==
    LET elig == {i \in 1..Len(pool) : IsEligible(pool[i], requestedModel)}
    IN IF elig = {} THEN 0
       ELSE CHOOSE i \in elig : \A j \in elig :
              \/ LruCompare(pool[i], pool[j]) < 0
              \/ (LruCompare(pool[i], pool[j]) = 0 /\ i <= j)

\* selectProvider: the update of the selected account unless skipUsageCount
SelectCharge(pool, i, t) ==
    [pool EXCEPT ![i].lastUsed = t, ![i].usageCount = @ + 1]

\* skipUsageCount not honoured
SelectIgnoringSkip(pool, i, t) == SelectCharge(pool, i, t)

\* selectProvider with skipUsageCount: the selected account is not updated
SelectSkipUsageCount(pool, i, t) == pool

\* markProviderUnhealthy, the body run when the provider is found
MarkUnhealthyAt(pool, i, msg, t) ==
    [pool EXCEPT ![i].errorCount = @ + 1,
                 ![i].lastErrorTime = t,
                 ![i].lastUsed = t,
                 ![i].lastErrorMessage = IF msg # NoMsg THEN msg ELSE @,
                 ![i].isHealthy = IF pool[i].errorCount + 1 >= maxErrorCount THEN FALSE ELSE @]

\* markProviderHealthy, the body run when the provider is found
MarkHealthyAt(pool, i, resetUsageCount, healthCheckModel, t) ==
    [pool EXCEPT ![i].isHealthy = TRUE,
                 ![i].errorCount = 0,
                 ![i].lastErrorTime = Null,
                 ![i].lastErrorMessage = NoMsg,
                 ![i].lastHealthCheckTime = t,
                 ![i].lastHealthCheckModel = IF healthCheckModel # NoModel THEN healthCheckModel ELSE @,
                 ![i].usageCount = IF resetUsageCount THEN 0 ELSE @ + 1,
                 ![i].lastUsed = IF resetUsageCount THEN @ ELSE t]

\* resetProviderCounters, the body run when the provider is found
ResetCountersAt(pool, i) ==
    [pool EXCEPT ![i].errorCount = 0, ![i].usageCount = 0]

\* _flushPendingSaves: nextProviders, a copy { ...p.config } of every config
\* (the times are ISO strings already, no Date is left to convert)
Serialize(pool) ==
    [i \in 1..Len(pool) |-> [f \in DOMAIN pool[i] |-> pool[i][f]]]

\* _flushPendingSaves: nextPools keeps the shape of the file that was read
NextPools(currentShape, nextProviders) ==
    [shape |-> IF currentShape = "object" THEN "object" ELSE "array", pools |-> nextProviders]

(***************************************************************************)
(* Initial states                                                          *)
(***************************************************************************)
\* An account as the pool file of an earlier run can hold it: never used,
\* disabled in the UI, one failure short of maxErrorCount, or tripped by
\* maxErrorCount failures.
PersistedAccounts(u) ==
    LET nsm == IF u = 2 THEN {"m1"} ELSE {}
        used(c, n, healthy) == [c EXCEPT !.isHealthy = healthy, !.errorCount = n,
                                         !.lastErrorTime = StartTime - 1, !.lastUsed = StartTime - 1,
                                         !.lastErrorMessage = "err", !.usageCount = 1]
    IN UNION { { NewAccount(u, nsm, ch),
                 [NewAccount(u, nsm, ch) EXCEPT !.isDisabled = TRUE],
                 used(NewAccount(u, nsm, ch), maxErrorCount - 1, TRUE),
                 used(NewAccount(u, nsm, ch), maxErrorCount, FALSE) } : ch \in BOOLEAN }

IdleReq == [pc |-> "idle", model |-> NoModel, pooluuid |-> Null, uuid |-> Null]
IdleHc == [idx |-> 0, wait |-> FALSE, now |-> Null, done |-> FALSE]
IdlePs == [pc |-> "off"]
IdleBs == [pc |-> "off"]
IdleSh == [pc |-> "off"]
Off == [pc |-> "off"]
\* the components that a specification does not exercise stay off
Quiet == er = Off /\ au = Off /\ dp = Off /\ tc = Off

\* The state after start-up: the pool as read from the pool file
InitPool(checkHealthOf, shapes) ==
    /\ providerStatus \in {p \in [1..NumAccounts -> UNION {PersistedAccounts(u) : u \in Uuids}] :
                              \A i \in 1..NumAccounts : /\ p[i] \in PersistedAccounts(i)
                                                        /\ p[i].checkHealth \in checkHealthOf}
    /\ now = StartTime
    /\ pendingSave = FALSE
    /\ saveTimer = Null
    /\ flushes = <<>>
    /\ file \in {[shape |-> fs, pools |-> Serialize(providerStatus)] : fs \in shapes}
    /\ reqs = [r \in Slots |-> IdleReq]
    /\ reqCount = 0
    /\ hc = IdleHc
    /\ uiProbe = 0
    /\ uiCount = 0
    /\ failStreak = [uuid |-> Null, n |-> 0]
    /\ lastMutation = Null

\* For the request pipeline checkHealth plays no part: it is off
Init == InitPool({FALSE}, {"array"}) /\ ps = IdlePs /\ bs = IdleBs /\ sh = IdleSh /\ Quiet

\* For the health checks every account starts enabled: the UI disables them
InitHealth ==
    /\ InitPool(BOOLEAN, {"array"})
    /\ \A i \in 1..NumAccounts : ~providerStatus[i].isDisabled
    /\ ps = IdlePs /\ bs = IdleBs /\ sh = IdleSh /\ Quiet

\* For persistence the pool file has either of its two shapes
\* and the pool is one in which every branch of the health check round is
\* taken: account 1 is probed, account 2 was tripped in the earlier run
InitSave ==
    /\ InitPool(BOOLEAN, {"array", "object"})
    /\ \A i \in 1..NumAccounts :
          /\ providerStatus[i].checkHealth = (i = 1)
          /\ providerStatus[i].isHealthy = (i # 2)
          /\ ~providerStatus[i].isDisabled
          /\ i > 2 => providerStatus[i].lastUsed = Null
    /\ ps = IdlePs /\ bs = IdleBs /\ sh = IdleSh /\ Quiet

\* A pool of accounts that are all healthy, enabled and never used
FreshPool ==
    /\ InitPool({FALSE}, {"array"})
    /\ \A i \in 1..NumAccounts : /\ providerStatus[i].isHealthy
                                 /\ ~providerStatus[i].isDisabled
                                 /\ providerStatus[i].lastUsed = Null

InitFair == FreshPool /\ ps = IdlePs /\ bs = IdleBs /\ sh = IdleSh /\ Quiet

(***************************************************************************)
(* Debounced persistence                                                   *)
(***************************************************************************)
\* _debouncedSave without pendingSave = true
DebouncedSaveNotPending ==
    /\ pendingSave' = pendingSave
    /\ saveTimer' = now + saveDebounceTime
    /\ lastMutation' = now

\* _debouncedSave
DebouncedSave ==
    /\ pendingSave' = TRUE
    /\ saveTimer' = now + saveDebounceTime
    /\ lastMutation' = now

NoSave == UNCHANGED <<pendingSave, saveTimer, lastMutation>>

NoContent == [shape |-> "none", pools |-> <<>>]

RemoveAt(s, k) == [j \in 1..(Len(s) - 1) |-> IF j < k THEN s[j] ELSE s[j + 1]]

\* the timeout set by _debouncedSave fires: _flushPendingSaves up to its first await
TimerFire ==
    /\ saveTimer # Null /\ now >= saveTimer
    /\ IF ~pendingSave
       THEN /\ saveTimer' = Null
            /\ UNCHANGED <<pendingSave, flushes>>
       ELSE /\ pendingSave' = FALSE
            /\ saveTimer' = Null
            /\ flushes' = Append(flushes, [phase |-> "read", content |-> NoContent])
    /\ UNCHANGED <<providerStatus, now, file, reqs, reqCount, hc, uiProbe, uiCount,
                   failStreak, lastMutation, ps, bs, sh, er, au, dp, tc>>

\* _flushPendingSaves: readFile resolves; nextPools is computed and writeFile is called
FlushRead(k) ==
    /\ k \in 1..Len(flushes) /\ flushes[k].phase = "read"
    /\ flushes' = [flushes EXCEPT ![k] = [phase |-> "write",
                        content |-> NextPools(file.shape, Serialize(providerStatus))]]
    /\ UNCHANGED <<providerStatus, now, pendingSave, saveTimer, file, reqs, reqCount, hc,
                   uiProbe, uiCount, failStreak, lastMutation, ps, bs, sh, er, au, dp, tc>>

\* _flushPendingSaves: writeFile resolves
FlushWrite(k) ==
    /\ k \in 1..Len(flushes) /\ flushes[k].phase = "write"
    /\ file' = flushes[k].content
    /\ flushes' = RemoveAt(flushes, k)
    /\ UNCHANGED <<providerStatus, now, pendingSave, saveTimer, reqs, reqCount, hc,
                   uiProbe, uiCount, failStreak, lastMutation, ps, bs, sh, er, au, dp, tc>>

\* the clock advances; a timeout that is due fires first, and the file I/O of
\* a flush takes less than a tick
TickTimed ==
    /\ now < MaxTime
    /\ saveTimer = Null \/ now < saveTimer
    /\ flushes = <<>>
    /\ now' = now + 1
    /\ UNCHANGED <<providerStatus, pendingSave, saveTimer, flushes, file, reqs, reqCount, hc,
                   uiProbe, uiCount, failStreak, lastMutation, ps, bs, sh, er, au, dp, tc>>

\* the clock advances (the save timer is not followed)
Tick ==
    /\ now < MaxTime
    /\ now' = now + 1
    /\ UNCHANGED <<providerStatus, pendingSave, saveTimer, flushes, file, reqs, reqCount, hc,
                   uiProbe, uiCount, failStreak, lastMutation, ps, bs, sh, er, au, dp, tc>>

(***************************************************************************)
(* Request pipeline for POST /v1/messages                                  *)
(***************************************************************************)
\* getApiService(currentConfig): the account it takes from the pool, by
\* selectProvider with no model and with the usage charged
GetApiServiceSelect(pool) == SelectIndex(pool, NoModel)

\* getApiServiceWithFallback(CONFIG, model): the account it takes from the
\* pool, by selectProvider for the model with skipUsageCount
GetApiServiceWithFallbackSelect(pool, model) == SelectIndex(pool, model)

\* requestHandler up to the body read: getApiService selects an account and
\* charges it, then the API key is checked.
ReqArrive(r, authorized, model) ==
    /\ reqs[r].pc = "idle"
    /\ \A q \in 1..(r - 1) : reqs[q].pc # "idle"   \* the handlers are interchangeable
    /\ reqCount < MaxRequests
    /\ reqCount' = reqCount + 1
    /\ LET sel == GetApiServiceSelect(providerStatus)
       IN IF sel = 0
          THEN \* getApiService throws: 500; markProviderUnhealthy({uuid: currentConfig.uuid})
               \* finds no provider because no uuid was selected
               /\ UNCHANGED <<providerStatus, reqs>>
               /\ NoSave
          ELSE /\ providerStatus' = SelectCharge(providerStatus, sel, now)
               /\ DebouncedSave
               /\ reqs' = [reqs EXCEPT ![r] =
                              IF authorized
                              THEN [pc |-> "body", model |-> model,
                                    pooluuid |-> providerStatus[sel].uuid, uuid |-> Null]
                              ELSE IdleReq]
    /\ UNCHANGED <<now, flushes, file, hc, uiProbe, uiCount, failStreak, ps, bs, sh, er, au, dp, tc>>

\* handleContentGenerationRequest: the body is read and the account is
\* re-selected for the model with skipUsageCount
ReqDispatch(r) ==
    /\ reqs[r].pc = "body"
    /\ LET sel == GetApiServiceWithFallbackSelect(providerStatus, reqs[r].model)
       IN /\ reqs' = [reqs EXCEPT ![r] =
                        IF sel = 0 THEN IdleReq
                        ELSE [@ EXCEPT !.pc = "serving", !.uuid = providerStatus[sel].uuid]]
          /\ providerStatus' = IF sel = 0 THEN providerStatus
                               ELSE SelectSkipUsageCount(providerStatus, sel, now)
    /\ UNCHANGED <<now, pendingSave, saveTimer, flushes, file, reqCount, hc,
                   uiProbe, uiCount, failStreak, lastMutation, ps, bs, sh, er, au, dp, tc>>

\* the uuid of the object literal that the handlers pass second
HandlerMarkUuidOfLiteral(pooluuid) == pooluuid

\* The uuid that markProviderHealthy / markProviderUnhealthy read from their
\* first argument when handleStreamRequest / handleUnaryRequest call them:
\* the argument is the string toProvider, whose .uuid is undefined.
HandlerMarkUuid(pooluuid) == Null

\* markProviderHealthy(providerConfig) as called by the request handlers
MarkProviderHealthy(u, resetUsageCount, healthCheckModel) ==
    LET i == FindProvider(providerStatus, u)
    IN IF i = 0 THEN UNCHANGED providerStatus /\ NoSave
       ELSE /\ providerStatus' = MarkHealthyAt(providerStatus, i, resetUsageCount, healthCheckModel, now)
            /\ DebouncedSave

\* markProviderUnhealthy(providerConfig, errorMessage)
MarkProviderUnhealthy(u, msg) ==
    LET i == FindProvider(providerStatus, u)
    IN IF i = 0 THEN UNCHANGED providerStatus /\ NoSave
       ELSE /\ providerStatus' = MarkUnhealthyAt(providerStatus, i, msg, now)
            /\ DebouncedSave

\* handleStreamRequest / handleUnaryRequest: generation ends cleanly
ReqSucceed(r) ==
    /\ reqs[r].pc = "serving"
    /\ MarkProviderHealthy(HandlerMarkUuid(reqs[r].uuid), FALSE, NoModel)
    /\ failStreak' = [uuid |-> reqs[r].uuid, n |-> 0]
    /\ reqs' = [reqs EXCEPT ![r] = IdleReq]
    /\ UNCHANGED <<now, flushes, file, reqCount, hc, uiProbe, uiCount, ps, bs, sh, er, au, dp, tc>>

\* handleStreamRequest / handleUnaryRequest: generation throws; the catch
\* block marks whatever the error is
ReqCatch(r) ==
    /\ reqs[r].pc = "serving"
    /\ MarkProviderUnhealthy(HandlerMarkUuid(reqs[r].uuid), NoMsg)
    /\ failStreak' = [uuid |-> reqs[r].uuid,
                      n |-> IF failStreak.uuid = reqs[r].uuid
                            THEN Min(failStreak.n + 1, maxErrorCount) ELSE 1]
    /\ reqs' = [reqs EXCEPT ![r] = IdleReq]
    /\ UNCHANGED <<now, flushes, file, reqCount, hc, uiProbe, uiCount, ps, bs, sh, au, dp, tc>>

\* the same with the error body left out of the state
ReqFail(r) == ReqCatch(r) /\ UNCHANGED er

(***************************************************************************)
(* Health checks                                                           *)
(***************************************************************************)
HcAdvance == [hc EXCEPT !.idx = IF hc.idx >= Len(providerStatus) THEN 0 ELSE hc.idx + 1,
                        !.wait = FALSE]

\* performHealthChecks, the skip test of one loop iteration
HcTooRecent(c) ==
    ~c.isHealthy /\ c.lastErrorTime # Null /\ hc.now - c.lastErrorTime < healthCheckInterval

\* performHealthChecks is called once the server listens
HcStart ==
    /\ ~hc.done /\ hc.idx = 0
    /\ hc' = [idx |-> IF Len(providerStatus) = 0 THEN 0 ELSE 1, wait |-> FALSE,
              now |-> now, done |-> TRUE]
    /\ UNCHANGED <<providerStatus, now, pendingSave, saveTimer, flushes, file, reqs, reqCount,
                   uiProbe, uiCount, failStreak, lastMutation, ps, bs, sh, er, au, dp, tc>>

\* loop iteration: the last error is too recent, continue
HcSkip ==
    /\ hc.idx # 0 /\ ~hc.wait
    /\ HcTooRecent(providerStatus[hc.idx])
    /\ hc' = HcAdvance
    /\ UNCHANGED <<providerStatus, now, pendingSave, saveTimer, flushes, file, reqs, reqCount,
                   uiProbe, uiCount, failStreak, lastMutation, ps, bs, sh, er, au, dp, tc>>

\* loop iteration: _checkProviderHealth returns null (checkHealth is off), the
\* counters are reset
HcNotChecked ==
    /\ hc.idx # 0 /\ ~hc.wait
    /\ ~HcTooRecent(providerStatus[hc.idx])
    /\ ~providerStatus[hc.idx].checkHealth
    /\ providerStatus' = ResetCountersAt(providerStatus, hc.idx)
    /\ DebouncedSave
    /\ hc' = HcAdvance
    /\ UNCHANGED <<now, flushes, file, reqs, reqCount, uiProbe, uiCount, failStreak, ps, bs, sh, er, au, dp, tc>>

\* loop iteration: _checkProviderHealth sends the probe and awaits it
HcProbe ==
    /\ hc.idx # 0 /\ ~hc.wait
    /\ ~HcTooRecent(providerStatus[hc.idx])
    /\ providerStatus[hc.idx].checkHealth
    /\ hc' = [hc EXCEPT !.wait = TRUE]
    /\ UNCHANGED <<providerStatus, now, pendingSave, saveTimer, flushes, file, reqs, reqCount,
                   uiProbe, uiCount, failStreak, lastMutation, ps, bs, sh, er, au, dp, tc>>

\* loop iteration: the probe result arrives and is marked
HcResult(success) ==
    /\ hc.idx # 0 /\ hc.wait
    /\ IF success
       THEN providerStatus' = MarkHealthyAt(providerStatus, hc.idx, TRUE, "m1", now)
       ELSE providerStatus' = [MarkUnhealthyAt(providerStatus, hc.idx, "err", now)
                                 EXCEPT ![hc.idx].lastHealthCheckTime = now,
                                        ![hc.idx].lastHealthCheckModel = "m1"]
    /\ DebouncedSave
    /\ hc' = HcAdvance
    /\ UNCHANGED <<now, flushes, file, reqs, reqCount, uiProbe, uiCount, failStreak, ps, bs, sh, er, au, dp, tc>>

\* UI: POST /api/providers/:type/:uuid/health-check, up to the await of the
\* forced probe
UiHealthCheckStart(i) ==
    /\ uiProbe = 0 /\ uiCount < MaxUiOps
    /\ i \in 1..Len(providerStatus)
    /\ uiProbe' = i
    /\ uiCount' = uiCount + 1
    /\ UNCHANGED <<providerStatus, now, pendingSave, saveTimer, flushes, file, reqs, reqCount,
                   hc, failStreak, lastMutation, ps, bs, sh, er, au, dp, tc>>

\* UI health check: the probe result is marked and the pool file is written
UiHealthCheckResult(success) ==
    /\ uiProbe # 0
    /\ IF success
       THEN providerStatus' = MarkHealthyAt(providerStatus, uiProbe, FALSE, "m1", now)
       ELSE providerStatus' = [MarkUnhealthyAt(providerStatus, uiProbe, "err", now)
                                 EXCEPT ![uiProbe].lastHealthCheckTime = now,
                                        ![uiProbe].lastHealthCheckModel = "m1"]
    /\ DebouncedSave
    /\ file' = NextPools(file.shape, Serialize(providerStatus'))
    /\ uiProbe' = 0
    /\ UNCHANGED <<now, flushes, reqs, reqCount, hc, uiCount, failStreak, ps, bs, sh, er, au, dp, tc>>

\* UI: POST /api/providers/:type/:uuid/(disable|enable)
UiSetDisabled(i, disabled) ==
    /\ i \in 1..Len(providerStatus)
    /\ uiCount < MaxUiOps
    /\ uiCount' = uiCount + 1
    /\ providerStatus[i].isDisabled # disabled
    /\ providerStatus' = [providerStatus EXCEPT ![i].isDisabled = disabled]
    /\ file' = NextPools(file.shape, Serialize(providerStatus'))
    /\ DebouncedSave
    /\ UNCHANGED <<now, flushes, reqs, reqCount, hc, uiProbe, failStreak, ps, bs, sh, er, au, dp, tc>>

\* the forEach of the reset-health route on one account
ResetHealthOf(c) ==
    IF ~c.isHealthy
    THEN [c EXCEPT !.isHealthy = TRUE, !.errorCount = 0, !.lastErrorTime = Null]
    ELSE c

\* UI: POST /api/providers/:type/reset-health
UiResetHealth ==
    /\ Len(providerStatus) # 0
    /\ uiCount < MaxUiOps
    /\ uiCount' = uiCount + 1
    /\ providerStatus' = [i \in 1..Len(providerStatus) |-> ResetHealthOf(providerStatus[i])]
    /\ file' = NextPools(file.shape, Serialize(providerStatus'))
    /\ UNCHANGED <<now, pendingSave, saveTimer, flushes, reqs, reqCount, hc, uiProbe,
                   failStreak, lastMutation, ps, bs, sh, er, au, dp, tc>>

(***************************************************************************)
(* UI: add, update and delete of an account (provider-api.js).  The three  *)
(* work on the pool FILE, write it back as a bare array and replace the    *)
(* manager's pool by what they wrote.  A key absent from a file entry is   *)
(* held as the default initializeProviderStatus gives it.                  *)
(***************************************************************************)
\* normalizeProviderPools of the parsed file: the array of accounts
NormalizeProviderPools(content) == content.pools

\* uuidv4(): a uuid no account of the file carries
FreshUuid(providerPools) ==
    CHOOSE u \in 1..(Len(providerPools) + NumAccounts + 1) :
        /\ u > NumAccounts
        /\ \A i \in 1..Len(providerPools) : providerPools[i].uuid # u
        /\ \A v \in (NumAccounts + 1)..(u - 1) : \E i \in 1..Len(providerPools) : providerPools[i].uuid = v

\* providerPoolManager.providerPools = providerPools; initializeProviderStatus():
\* a falsy lastErrorTime or lastHealthCheckTime becomes null
InitializeProviderStatus(providerPools) ==
    [i \in 1..Len(providerPools) |->
        [providerPools[i] EXCEPT !.lastErrorTime = IF @ = 0 THEN Null ELSE @,
                                 !.lastHealthCheckTime = IF @ = 0 THEN Null ELSE @]]

\* POST /api/providers: bodyUuid is the uuid of the body, 0 when it has none
UiAddProvider(bodyUuid) ==
    /\ uiCount < MaxUiOps
    /\ uiCount' = uiCount + 1
    /\ LET providerPools == NormalizeProviderPools(file)
           uuid == IF bodyUuid = 0 THEN FreshUuid(providerPools) ELSE bodyUuid
           pushed == Append(providerPools, NewAccount(uuid, {}, FALSE))
       IN /\ file' = [shape |-> "array", pools |-> pushed]
          /\ providerStatus' = InitializeProviderStatus(pushed)
    /\ UNCHANGED <<now, pendingSave, saveTimer, flushes, reqs, reqCount, hc, uiProbe,
                   failStreak, lastMutation, ps, bs, sh, er, au, dp, tc>>

\* updatedProvider: the body spread over the existing entry, then the uuid of
\* the path and the usage statistics of the existing entry
UpdatedProvider(existingProvider, providerConfig, providerUuid) ==
    [existingProvider EXCEPT !.uuid = providerUuid,
                             !.isDisabled = providerConfig.isDisabled]

\* PUT /api/providers/:type/:uuid with a body that carries a uuid and isDisabled
UiUpdateProvider(providerUuid, providerConfig) ==
    /\ uiCount < MaxUiOps
    /\ LET providerPools == NormalizeProviderPools(file)
           providerIndex == FindProvider(providerPools, providerUuid)
       IN /\ providerIndex # 0     \* otherwise 'Provider not found': 500
          /\ LET updated == [providerPools EXCEPT ![providerIndex] =
                                UpdatedProvider(providerPools[providerIndex], providerConfig,
                                                providerUuid)]
             IN /\ file' = [shape |-> "array", pools |-> updated]
                /\ providerStatus' = InitializeProviderStatus(updated)
    /\ uiCount' = uiCount + 1
    /\ UNCHANGED <<now, pendingSave, saveTimer, flushes, reqs, reqCount, hc, uiProbe,
                   failStreak, lastMutation, ps, bs, sh, er, au, dp, tc>>

\* DELETE /api/providers/:type/:uuid
UiDeleteProvider(providerUuid) ==
    /\ uiCount < MaxUiOps
    /\ LET providerPools == NormalizeProviderPools(file)
           providerIndex == FindProvider(providerPools, providerUuid)
       IN /\ providerIndex # 0     \* otherwise 'Provider not found': 500
          /\ file' = [shape |-> "array", pools |-> RemoveAt(providerPools, providerIndex)]
          /\ providerStatus' = InitializeProviderStatus(RemoveAt(providerPools, providerIndex))
    /\ uiCount' = uiCount + 1
    /\ UNCHANGED <<now, pendingSave, saveTimer, flushes, reqs, reqCount, hc, uiProbe,
                   failStreak, lastMutation, ps, bs, sh, er, au, dp, tc>>

(***************************************************************************)
(* Specifications                                                          *)
(***************************************************************************)
ReqActions ==
    \/ \E r \in Slots, a \in BOOLEAN, m \in Models : ReqArrive(r, a, m)
    \/ \E r \in Slots : ReqDispatch(r)
    \/ \E r \in Slots : ReqSucceed(r)
    \/ \E r \in Slots : ReqFail(r)

HcActions ==
    \/ HcStart
    \/ HcSkip
    \/ HcNotChecked
    \/ HcProbe
    \/ \E s \in BOOLEAN : HcResult(s)

UiProbeActions ==
    \/ \E i \in 1..NumAccounts : UiHealthCheckStart(i)
    \/ \E s \in BOOLEAN : UiHealthCheckResult(s)

UiToggleActions ==
    \E i \in 1..NumAccounts, d \in BOOLEAN : UiSetDisabled(i, d)

SaveActions ==
    \/ TimerFire
    \/ \E k \in DOMAIN flushes : FlushRead(k)
    \/ \E k \in DOMAIN flushes : FlushWrite(k)

\* The request pipeline over a pool read from the pool file.  A flush of the
\* pool file reads the pool and never writes it, so the save timer is followed
\* in SpecSave only.
Next == ReqActions \/ Tick

Spec == Init /\ [][Next]_vars

\* Health checking: the start-up round, the UI health checks, enable/disable
\* and reset-health
NextHealth == HcActions \/ UiProbeActions \/ UiToggleActions \/ UiResetHealth \/ Tick

SpecHealth == InitHealth /\ [][NextHealth]_vars

\* Health checking with no operator and an upstream that has recovered: the
\* start-up round, every probe of which succeeds, and the clock.  The event
\* loop runs a continuation that is ready and the clock advances.
NextHealthFair ==
    \/ HcStart
    \/ HcSkip
    \/ HcNotChecked
    \/ HcProbe
    \/ HcResult(TRUE)
    \/ Tick

SpecHealthFair ==
    /\ InitHealth /\ [][NextHealthFair]_vars
    /\ WF_vars(HcStart \/ HcSkip \/ HcNotChecked \/ HcProbe \/ HcResult(TRUE))
    /\ WF_vars(Tick)

\* Requests that all complete without failure, over a fresh pool
NextFair ==
    \/ \E r \in Slots, a \in BOOLEAN, m \in Models : ReqArrive(r, a, m)
    \/ \E r \in Slots : ReqDispatch(r)
    \/ \E r \in Slots : ReqSucceed(r)
    \/ Tick

SpecFair == InitFair /\ [][NextFair]_vars

\* The start-up health checks while requests are served: the marks of the
\* probes, the marks of the handlers and the selections on the same pool
NextMark ==
    \/ HcActions
    \/ \E r \in Slots, m \in Models : ReqArrive(r, TRUE, m)
    \/ \E r \in Slots : ReqDispatch(r)
    \/ \E r \in Slots : ReqFail(r)
    \/ Tick

SpecMark == InitHealth /\ [][NextMark]_vars

\* Persistence: every kind of pool mutation (the select of a request that is
\* then refused, the marks and resets of the start-up health checks, enable
\* and disable), the save timer and the flush, on a clock that lets a due timeout fire and the file I/O finish within a tick
NextSave ==
    \/ \E r \in Slots, m \in Models : ReqArrive(r, FALSE, m)
    \/ HcActions
    \/ UiToggleActions
    \/ SaveActions
    \/ TickTimed

SpecSave == InitSave /\ [][NextSave]_vars

\* the clock advances whatever the state of the save timer and of the file
\* I/O: readFile and writeFile may take longer than saveDebounceTime.  It is
\* followed one debounce period past MaxTime, so that a timer set at MaxTime
\* comes due.
TickSlowIo ==
    /\ now < MaxTime + saveDebounceTime
    /\ now' = now + 1
    /\ UNCHANGED <<providerStatus, pendingSave, saveTimer, flushes, file, reqs, reqCount, hc,
                   uiProbe, uiCount, failStreak, lastMutation, ps, bs, sh, er, au, dp, tc>>

\* Persistence with file I/O of any duration: selects as the mutations, the
\* save timer and the flush
NextFlush ==
    \/ \E r \in Slots, m \in Models : ReqArrive(r, FALSE, m)
    \/ SaveActions
    \/ TickSlowIo

SpecFlush == InitSave /\ [][NextFlush]_vars

\* The pool as the UI manages it: the file in either shape, accounts healthy
\* and enabled
InitCrud ==
    /\ InitPool({FALSE}, {"array", "object"})
    /\ \A i \in 1..NumAccounts : providerStatus[i].isHealthy /\ ~providerStatus[i].isDisabled
    /\ ps = IdlePs /\ bs = IdleBs /\ sh = IdleSh /\ Quiet

UiCrudActions ==
    \/ \E bodyUuid \in 0..NumAccounts : UiAddProvider(bodyUuid)
    \/ \E u \in Uuids, b \in Uuids, d \in BOOLEAN : UiUpdateProvider(u, [uuid |-> b, isDisabled |-> d])
    \/ \E u \in Uuids : UiDeleteProvider(u)

\* The UI operations on the pool, with selects as the counter mutations, the
\* save timer and the flush
NextCrud ==
    \/ UiCrudActions
    \/ UiToggleActions
    \/ \E r \in Slots, m \in Models : ReqArrive(r, FALSE, m)
    \/ SaveActions
    \/ TickTimed

SpecCrud == InitCrud /\ [][NextCrud]_vars

(***************************************************************************)
(* parseAwsEventStreamBuffer.  A string is a sequence of characters; an    *)
(* index of the code (from 0) is the number of characters before it.       *)
(***************************************************************************)
MaxFrames == 2

\* the five payload signatures searched with indexOf
Signatures ==
    { <<"{", "\"", "c", "o", "n", "t", "e", "n", "t", "\"", ":">>,
      <<"{", "\"", "n", "a", "m", "e", "\"", ":">>,
      <<"{", "\"", "f", "o", "l", "l", "o", "w", "u", "p", "P", "r", "o", "m", "p", "t", "\"", ":">>,
      <<"{", "\"", "i", "n", "p", "u", "t", "\"", ":">>,
      <<"{", "\"", "s", "t", "o", "p", "\"", ":">> }

\* remaining.indexOf(sig, searchStart): the position (from 1) of the first
\* occurrence at or after index searchStart, 0 for -1
IndexOf(s, sig, searchStart) ==
    LET hits == {p \in (searchStart + 1)..(Len(s) - Len(sig) + 1) :
                    SubSeq(s, p, p + Len(sig) - 1) = sig}
    IN IF hits = {} THEN 0 ELSE CHOOSE p \in hits : \A q \in hits : p <= q

\* the brace counting loop from position i: the position of the closing
\* brace, 0 when the buffer ends first (jsonEnd < 0)
RECURSIVE ScanJsonEnd(_, _, _, _, _)
ScanJsonEnd(s, i, braceCount, inString, escapeNext) ==
    IF i > Len(s) THEN 0
    ELSE IF escapeNext THEN ScanJsonEnd(s, i + 1, braceCount, inString, FALSE)
    ELSE IF s[i] = "\\" THEN ScanJsonEnd(s, i + 1, braceCount, inString, TRUE)
    ELSE IF s[i] = "\"" THEN ScanJsonEnd(s, i + 1, braceCount, ~inString, FALSE)
    ELSE IF ~inString /\ s[i] = "{" THEN ScanJsonEnd(s, i + 1, braceCount + 1, inString, FALSE)
    ELSE IF ~inString /\ s[i] = "}"
         THEN IF braceCount - 1 = 0 THEN i
              ELSE ScanJsonEnd(s, i + 1, braceCount - 1, inString, FALSE)
    ELSE ScanJsonEnd(s, i + 1, braceCount, inString, FALSE)

(* JSON.parse of an object whose values are strings, true or false: the    *)
(* payloads of the streams modelled here hold nothing else.                *)
JsonUndefined == [t |-> "undefined", v |-> <<>>]
JsonInvalid == [ok |-> FALSE, v |-> JsonUndefined, next |-> 0]

\* the rest of a string literal whose opening quote is before position i
RECURSIVE JsonString(_, _, _)
JsonString(s, i, acc) ==
    IF i > Len(s) THEN JsonInvalid
    ELSE IF s[i] = "\"" THEN [ok |-> TRUE, v |-> [t |-> "string", v |-> acc], next |-> i + 1]
    ELSE IF s[i] = "\\"
         THEN IF i + 1 <= Len(s) /\ s[i + 1] \in {"\"", "\\"}
              THEN JsonString(s, i + 2, Append(acc, s[i + 1]))
              ELSE JsonInvalid
    ELSE JsonString(s, i + 1, Append(acc, s[i]))

JsonValue(s, i) ==
    IF i > Len(s) THEN JsonInvalid
    ELSE IF s[i] = "\"" THEN JsonString(s, i + 1, <<>>)
    ELSE IF SubSeq(s, i, i + 3) = <<"t", "r", "u", "e">>
         THEN [ok |-> TRUE, v |-> [t |-> "true", v |-> <<>>], next |-> i + 4]
    ELSE IF SubSeq(s, i, i + 4) = <<"f", "a", "l", "s", "e">>
         THEN [ok |-> TRUE, v |-> [t |-> "false", v |-> <<>>], next |-> i + 5]
    ELSE JsonInvalid

\* the members of an object from position i; obj is the set of <<key, value>> so far
RECURSIVE JsonMembers(_, _, _)
JsonMembers(s, i, obj) ==
    IF i > Len(s) \/ s[i] # "\"" THEN [ok |-> FALSE, obj |-> {}]
    ELSE LET k == JsonString(s, i + 1, <<>>)
         IN IF ~k.ok \/ k.next > Len(s) \/ s[k.next] # ":" THEN [ok |-> FALSE, obj |-> {}]
            ELSE LET v == JsonValue(s, k.next + 1)
                     obj2 == {p \in obj : p[1] # k.v.v} \cup {<<k.v.v, v.v>>}
                 IN IF ~v.ok \/ v.next > Len(s) THEN [ok |-> FALSE, obj |-> {}]
                    ELSE IF s[v.next] = "}"
                         THEN [ok |-> v.next = Len(s), obj |-> obj2]
                    ELSE IF s[v.next] = "," THEN JsonMembers(s, v.next + 1, obj2)
                    ELSE [ok |-> FALSE, obj |-> {}]

JsonParse(s) ==
    IF Len(s) < 2 \/ s[1] # "{" THEN [ok |-> FALSE, obj |-> {}]
    ELSE JsonMembers(s, 2, {})

\* parsed.key
JsonGet(obj, key) ==
    IF \E p \in obj : p[1] = key THEN (CHOOSE p \in obj : p[1] = key)[2] ELSE JsonUndefined

\* the truth value JavaScript gives a parsed value
Truthy(v) == v.t = "true" \/ (v.t = "string" /\ v.v # <<>>)

StreamEvent(type, content, name, toolUseId, input, stop) ==
    [type |-> type, content |-> content, name |-> name, toolUseId |-> toolUseId,
     input |-> input, stop |-> stop]

\* the events pushed for one payload: none when JSON.parse throws or no branch matches
ClassifyPayload(jsonStr) ==
    LET parsed == JsonParse(jsonStr)
        get(k) == JsonGet(parsed.obj, k)
        KeyContent == <<"c", "o", "n", "t", "e", "n", "t">>
        KeyName == <<"n", "a", "m", "e">>
        KeyToolUseId == <<"t", "o", "o", "l", "U", "s", "e", "I", "d">>
        KeyFollowup == <<"f", "o", "l", "l", "o", "w", "u", "p", "P", "r", "o", "m", "p", "t">>
        KeyInput == <<"i", "n", "p", "u", "t">>
        KeyStop == <<"s", "t", "o", "p">>
        U == JsonUndefined
    IN IF ~parsed.ok THEN <<>>
       ELSE IF get(KeyContent) # U /\ ~Truthy(get(KeyFollowup))
            THEN <<StreamEvent("content", get(KeyContent), U, U, U, U)>>
       ELSE IF Truthy(get(KeyName)) /\ Truthy(get(KeyToolUseId))
            THEN <<StreamEvent("toolUse", U, get(KeyName), get(KeyToolUseId),
                               IF Truthy(get(KeyInput)) THEN get(KeyInput)
                               ELSE [t |-> "string", v |-> <<>>],
                               IF Truthy(get(KeyStop)) THEN get(KeyStop)
                               ELSE [t |-> "false", v |-> <<>>])>>
       ELSE IF get(KeyInput) # U /\ ~Truthy(get(KeyName))
            THEN <<StreamEvent("toolUseInput", U, U, U, get(KeyInput), U)>>
       ELSE IF get(KeyStop) # U
            THEN <<StreamEvent("toolUseStop", U, U, U, U, get(KeyStop))>>
       ELSE <<>>

\* the statements after the while loop
ParseReturn(remaining, searchStart, events) ==
    [events |-> events,
     remaining |-> IF searchStart > 0 /\ Len(remaining) > 0
                   THEN SubSeq(remaining, searchStart + 1, Len(remaining))
                   ELSE remaining]

\* the while loop
RECURSIVE ParseLoop(_, _, _)
ParseLoop(remaining, searchStart, events) ==
    LET candidates == {IndexOf(remaining, sig, searchStart) : sig \in Signatures} \ {0}
    IN IF candidates = {} THEN ParseReturn(remaining, searchStart, events)
       ELSE LET jsonStart == CHOOSE p \in candidates : \A q \in candidates : p <= q
                jsonEnd == ScanJsonEnd(remaining, jsonStart, 0, FALSE, FALSE)
            IN IF jsonEnd = 0
               THEN ParseReturn(SubSeq(remaining, jsonStart, Len(remaining)), searchStart, events)
               ELSE LET pushed == events \o ClassifyPayload(SubSeq(remaining, jsonStart, jsonEnd))
                    IN IF jsonEnd >= Len(remaining)
                       THEN ParseReturn(<<>>, jsonEnd, pushed)
                       ELSE ParseLoop(remaining, jsonEnd, pushed)

parseAwsEventStreamBuffer(buffer) == ParseLoop(buffer, 0, <<>>)

\* The frames of a valid upstream stream: a header (one character stands for
\* its bytes) and a JSON payload
Frames ==
    { <<"#", "{", "\"", "c", "o", "n", "t", "e", "n", "t", "\"", ":", "\"", "a", "\"", "}">>,
      <<"#", "{", "\"", "c", "o", "n", "t", "e", "n", "t", "\"", ":", "\"", "b", "}", "\"", "}">>,
      <<"#", "{", "\"", "n", "a", "m", "e", "\"", ":", "\"", "t", "\"", ",", "\"", "t", "o", "o", "l", "U", "s", "e", "I", "d", "\"", ":", "\"", "i", "\"", "}">>,
      <<"#", "{", "\"", "i", "n", "p", "u", "t", "\"", ":", "\"", "x", "\\", "\"", "\"", "}">>,
      <<"#", "{", "\"", "s", "t", "o", "p", "\"", ":", "t", "r", "u", "e", "}">>,
      <<"#", "{", "\"", "f", "o", "l", "l", "o", "w", "u", "p", "P", "r", "o", "m", "p", "t", "\"", ":", "\"", "f", "\"", "}">> }

RECURSIVE FrameStreams(_)
FrameStreams(n) ==
    IF n = 0 THEN {<<>>}
    ELSE FrameStreams(n - 1) \cup {s \o f : s \in FrameStreams(n - 1), f \in Frames}

\* The consumer is given a stream in two chunks: B, then B'
InitParser ==
    /\ FreshPool /\ bs = IdleBs /\ sh = IdleSh /\ Quiet
    /\ ps \in UNION {{[pc |-> "start", stream |-> s, cut |-> k, events |-> <<>>,
                          remaining |-> <<>>] : k \in 0..Len(s)} :
                       s \in FrameStreams(MaxFrames) \ {<<>>}}

\* the first chunk B is parsed
ParseFirstChunk ==
    /\ ps.pc = "start"
    /\ LET r == parseAwsEventStreamBuffer(SubSeq(ps.stream, 1, ps.cut))
       IN ps' = [ps EXCEPT !.pc = "fed", !.events = r.events, !.remaining = r.remaining]
    /\ UNCHANGED <<poolVars, bs, sh, er, au, dp, tc>>

\* remaining + B' is parsed
ParseSecondChunk ==
    /\ ps.pc = "fed"
    /\ LET r == parseAwsEventStreamBuffer(ps.remaining \o SubSeq(ps.stream, ps.cut + 1, Len(ps.stream)))
       IN ps' = [ps EXCEPT !.pc = "done", !.events = @ \o r.events, !.remaining = r.remaining]
    /\ UNCHANGED <<poolVars, bs, sh, er, au, dp, tc>>

NextParser == ParseFirstChunk \/ ParseSecondChunk

SpecParser == InitParser /\ [][NextParser]_vars

(***************************************************************************)
(* buildCodewhispererRequest.  A text is a sequence of pieces, so that     *)
(* concatenation is \o and the empty string is <<>>.  Images, tools and    *)
(* the model id are left out: they do not touch history or roles.          *)
(***************************************************************************)
MaxMessages == 3

TextPart(text) == [type |-> "text", text |-> text, id |-> 0]
ToolResultPart(id, text) == [type |-> "tool_result", text |-> text, id |-> id]
ToolUsePart(id) == [type |-> "tool_use", text |-> <<>>, id |-> id]
StringContent(text) == [kind |-> "string", text |-> text, parts |-> <<>>]
ArrayContent(parts) == [kind |-> "array", text |-> <<>>, parts |-> parts]

\* parts.filter(part => part.type === 'text' && part.text).map(part => part.text).join('')
RECURSIVE JoinText(_)
JoinText(parts) ==
    IF parts = <<>> THEN <<>>
    ELSE (IF Head(parts).type = "text" THEN Head(parts).text ELSE <<>>) \o JoinText(Tail(parts))

\* getContentText(message) for a message whose content is a string or an array
getContentText(message) ==
    IF message.content.kind = "string" THEN message.content.text
    ELSE JoinText(message.content.parts)

\* the ids of the parts of one type, in order
RECURSIVE PartIds(_, _)
PartIds(parts, type) ==
    IF parts = <<>> THEN <<>>
    ELSE (IF Head(parts).type = type THEN <<Head(parts).id>> ELSE <<>>) \o PartIds(Tail(parts), type)

\* the de-duplication of toolResults by toolUseId, first occurrence kept
RECURSIVE UniqueIds(_, _)
UniqueIds(ids, seen) ==
    IF ids = <<>> THEN <<>>
    ELSE IF Head(ids) \in seen THEN UniqueIds(Tail(ids), seen)
    ELSE <<Head(ids)>> \o UniqueIds(Tail(ids), seen \cup {Head(ids)})

\* lastMessage.content[0].type === "text" && lastMessage.content[0].text === "{":
\* "throws" when content[0] is undefined (empty string, empty array)
SentinelTest(content) ==
    IF content.kind = "string"
    THEN IF content.text = <<>> THEN "throws" ELSE "no"
    ELSE IF content.parts = <<>> THEN "throws"
    ELSE IF content.parts[1].type = "text" /\ content.parts[1].text = <<"{">> THEN "yes"
    ELSE "no"

\* the content of two adjacent messages of one role, merged
MergeContent(last, cur) ==
    IF last.kind = "array" /\ cur.kind = "array" THEN ArrayContent(last.parts \o cur.parts)
    ELSE IF last.kind = "string" /\ cur.kind = "string"
         THEN StringContent(last.text \o <<"\n">> \o cur.text)
    ELSE IF last.kind = "array" THEN ArrayContent(Append(last.parts, TextPart(cur.text)))
    ELSE ArrayContent(<<TextPart(last.text)>> \o cur.parts)

\* the loop that merges adjacent messages of the same role
RECURSIVE MergeAdjacent(_, _)
MergeAdjacent(messages, merged) ==
    IF messages = <<>> THEN merged
    ELSE LET cur == Head(messages)
             n == Len(merged)
         IN IF n > 0 /\ merged[n].role = cur.role
            THEN MergeAdjacent(Tail(messages),
                     [merged EXCEPT ![n].content = MergeContent(merged[n].content, cur.content)])
            ELSE MergeAdjacent(Tail(messages), Append(merged, cur))

HistoryUser(content, toolResults) ==
    [role |-> "user", content |-> content, toolResults |-> toolResults, toolUses |-> <<>>]
HistoryAssistant(content, toolUses) ==
    [role |-> "assistant", content |-> content, toolResults |-> <<>>, toolUses |-> toolUses]

\* the text a history entry or the current message takes from a content:
\* the text parts of an array appended in order, or the string
ContentText(message) ==
    IF message.content.kind = "array" THEN JoinText(message.content.parts)
    ELSE getContentText(message)

\* one iteration of the history loop
HistoryEntry(message) ==
    IF message.role = "user"
    THEN HistoryUser(ContentText(message),
                     UniqueIds(PartIds(message.content.parts, "tool_result"), {}))
    ELSE HistoryAssistant(ContentText(message), PartIds(message.content.parts, "tool_use"))

BuildRejected == [ok |-> FALSE, history |-> <<>>,
                  current |-> [content |-> <<>>, toolResults |-> <<>>]]

\* buildCodewhispererRequest after the merge: the system prompt, the history
\* loop and the current message
BuildFromMerged(systemPrompt, processed) ==
    LET n == Len(processed)
        sysFirstUser == systemPrompt # <<>> /\ processed[1].role = "user"
        sysHistory ==
            IF systemPrompt = <<>> THEN <<>>
            ELSE IF processed[1].role = "user"
                 THEN <<HistoryUser(systemPrompt \o <<"\n\n">> \o getContentText(processed[1]), <<>>)>>
                 ELSE <<HistoryUser(systemPrompt, <<>>)>>
        startIndex == IF sysFirstUser THEN 2 ELSE 1
        looped == sysHistory \o [k \in 1..(IF n - 1 >= startIndex THEN n - startIndex ELSE 0) |->
                                    HistoryEntry(processed[startIndex + k - 1])]
        currentMessage == processed[n]
        toolResults == PartIds(currentMessage.content.parts, "tool_result")
        userText == ContentText(currentMessage)
    IN IF currentMessage.role = "assistant"
       THEN [ok |-> TRUE,
             history |-> Append(looped, HistoryEntry(currentMessage)),
             current |-> [content |-> <<"Continue">>, toolResults |-> <<>>]]
       ELSE [ok |-> TRUE,
             history |-> IF looped # <<>> /\ looped[Len(looped)].role # "assistant"
                         THEN Append(looped, HistoryAssistant(<<"Continue">>, <<>>))
                         ELSE looped,
             current |-> [content |-> IF userText # <<>> THEN userText
                                      ELSE IF toolResults # <<>> THEN <<"Tool results provided.">>
                                      ELSE <<"Continue">>,
                          toolResults |-> UniqueIds(toolResults, {})]]

buildCodewhispererRequest(messages, inSystemPrompt) ==
    IF messages = <<>> THEN BuildRejected
    ELSE LET last == messages[Len(messages)]
             sentinel == IF last.role = "assistant" THEN SentinelTest(last.content) ELSE "no"
             processed == MergeAdjacent(IF sentinel = "yes"
                                        THEN SubSeq(messages, 1, Len(messages) - 1)
                                        ELSE messages, <<>>)
         IN IF sentinel = "throws" \/ processed = <<>> THEN BuildRejected
            ELSE BuildFromMerged(inSystemPrompt, processed)

\* The requests the input validator lets through: at least one message, roles
\* user and assistant, a content that is a non-empty string or an array of parts
Contents ==
    { StringContent(<<"a">>), ArrayContent(<<>>),
      ArrayContent(<<TextPart(<<"{">>)>>),
      ArrayContent(<<TextPart(<<"b">>), ToolUsePart(2)>>),
      ArrayContent(<<ToolResultPart(1, <<"r">>), ToolResultPart(1, <<"r">>)>>) }

Messages == [role : {"user", "assistant"}, content : Contents]

RECURSIVE MessageLists(_)
MessageLists(n) ==
    IF n = 0 THEN {<<>>}
    ELSE MessageLists(n - 1) \cup {Append(l, m) : l \in MessageLists(n - 1), m \in Messages}

InitBuilder ==
    /\ FreshPool /\ ps = IdlePs /\ sh = IdleSh /\ Quiet
    /\ bs \in {[pc |-> "request", messages |-> l, system |-> sys, out |-> BuildRejected] :
                 l \in MessageLists(MaxMessages) \ {<<>>}, sys \in {<<>>, <<"S">>}}

\* the request is built, or the builder throws
BuildRequest ==
    /\ bs.pc = "request"
    /\ LET out == buildCodewhispererRequest(bs.messages, bs.system)
       IN bs' = [bs EXCEPT !.pc = IF out.ok THEN "built" ELSE "rejected", !.out = out]
    /\ UNCHANGED <<poolVars, ps, sh, er, au, dp, tc>>

NextBuilder == BuildRequest

SpecBuilder == InitBuilder /\ [][NextBuilder]_vars

(***************************************************************************)
(* handleStreamRequest.  The native stream is the async generator of the   *)
(* service adapter: it yields chunks (an event object, an array of event   *)
(* objects, or nothing) and may throw instead of yielding.                 *)
(***************************************************************************)
MaxChunks == 2

\* a native chunk: nothing ("null"), an event object or an array of event objects
Chunk(kind, types) == [kind |-> kind, events |-> [i \in 1..Len(types) |-> [type |-> types[i]]]]

\* chunksToSend in reverse order
ChunksToSendReversed(chunkToSend) ==
    [i \in 1..Len(chunkToSend.events) |-> chunkToSend.events[Len(chunkToSend.events) + 1 - i]]

\* if (!chunkToSend) continue; Array.isArray(chunkToSend) ? chunkToSend : [chunkToSend]
ChunksToSend(chunkToSend) ==
    IF chunkToSend.kind = "null" THEN <<>> ELSE chunkToSend.events

\* the frames written for one native chunk:
\* res.write(`event: ${chunk.type}\n`); res.write(`data: ${JSON.stringify(chunk)}\n\n`)
WriteChunk(frames, nativeChunk) ==
    frames \o [i \in 1..Len(ChunksToSend(nativeChunk)) |->
                  [event |-> ChunksToSend(nativeChunk)[i].type, data |-> ChunksToSend(nativeChunk)[i]]]

\* the catch block without the write of the error payload
CatchFramesNoError(frames) == frames

\* the catch block: res.write(createStreamErrorResponse(error, fromProvider))
CatchFrames(frames) == Append(frames, [event |-> "error", data |-> [type |-> "error"]])

\* the lists of at most n chunks the service yields between message_start
\* and message_delta
RECURSIVE ChunkLists(_)
ChunkLists(n) ==
    IF n = 0 THEN {<<>>}
    ELSE ChunkLists(n - 1) \cup
         {Append(l, c) : l \in ChunkLists(n - 1),
                         c \in { Chunk("null", <<>>),
                                  Chunk("object", <<"content_block_delta">>),
                                  Chunk("array", <<"content_block_start", "content_block_delta">>),
                                  Chunk("object", <<"content_block_stop">>) }}

\* the stream of the service: message_start, the block events, and on clean
\* end of the upstream message_delta and message_stop
UpstreamStreams ==
    { <<Chunk("object", <<"message_start">>)>> \o l
        \o <<Chunk("object", <<"message_delta">>), Chunk("object", <<"message_stop">>)>> :
      l \in ChunkLists(MaxChunks) }

\* after handleUnifiedResponse has sent the headers; failAt = k: the k-th
\* next() of the stream throws (k = 1: the upstream cannot be opened), 0: none
InitStream ==
    /\ FreshPool /\ ps = IdlePs /\ bs = IdleBs /\ Quiet
    /\ sh \in UNION {{[pc |-> "iterating", upstream |-> s, failAt |-> k, pos |-> 0,
                          frames |-> <<>>, ended |-> 0, clientGone |-> FALSE] : k \in 0..Len(s)} :
                       s \in UpstreamStreams}

\* for await: the stream yields its next chunk and the chunk is written
StreamNext ==
    /\ sh.pc = "iterating"
    /\ sh.pos < Len(sh.upstream) /\ sh.failAt # sh.pos + 1
    /\ sh' = [sh EXCEPT !.pos = @ + 1, !.frames = WriteChunk(@, sh.upstream[sh.pos + 1])]
    /\ UNCHANGED <<poolVars, ps, bs, er, au, dp, tc>>

\* for await: the stream throws; catch (the mark is a no-op) writes the error
\* payload, calls res.end() and sets responseClosed, so finally does not end again
StreamThrow ==
    /\ sh.pc = "iterating"
    /\ sh.failAt = sh.pos + 1
    /\ sh' = [sh EXCEPT !.pc = "done", !.frames = CatchFrames(@), !.ended = @ + 1]
    /\ UNCHANGED <<poolVars, ps, bs, er, au, dp, tc>>

\* for await: the stream is exhausted; the mark is a no-op, and finally calls
\* res.end() because responseClosed is false
StreamReturn ==
    /\ sh.pc = "iterating"
    /\ sh.pos = Len(sh.upstream) /\ sh.failAt = 0
    /\ sh' = [sh EXCEPT !.pc = "done", !.ended = @ + 1]
    /\ UNCHANGED <<poolVars, ps, bs, er, au, dp, tc>>

\* the client closes the connection: res.write no longer reaches it and does
\* not throw; the handler has no listener for it
ClientClose ==
    /\ sh.pc = "iterating" /\ ~sh.clientGone
    /\ sh' = [sh EXCEPT !.clientGone = TRUE]
    /\ UNCHANGED <<poolVars, ps, bs, er, au, dp, tc>>

NextStream == StreamNext \/ StreamThrow \/ StreamReturn \/ ClientClose

SpecStream == InitStream /\ [][NextStream]_vars

(***************************************************************************)
(* Error bodies of a POST /v1/messages request.  A thrown error is held by *)
(* the properties the code reads: response.status, status, code (0: the    *)
(* property is absent; codeIsString: code is a string such as              *)
(* "ECONNREFUSED") and message.  A body is held by its keys.               *)
(***************************************************************************)
ErrorKinds == {"authentication_error", "permission_error", "rate_limit_error", "server_error",
               "invalid_request_error", "network_error", "timeout_error"}

\* a || b || c || 500 over the status properties; a string is truthy
FirstTruthy(nums, codeIsString) ==
    IF \E i \in 1..Len(nums) : nums[i] # 0
    THEN [isString |-> FALSE, n |-> nums[CHOOSE i \in 1..Len(nums) :
                                          nums[i] # 0 /\ \A j \in 1..(i - 1) : nums[j] = 0]]
    ELSE IF codeIsString THEN [isString |-> TRUE, n |-> 0]
    ELSE [isString |-> FALSE, n |-> 500]

\* a string compared with a number is false on both tests
getErrorType(statusCode) ==
    LET table(n, other) ==
            CASE n = 401 -> "authentication_error"
              [] n = 403 -> "permission_error"
              [] n = 429 -> "rate_limit_error"
              [] n \in {500, 502, 503} -> "server_error"
              [] n = 504 -> "timeout_error"
              [] OTHER -> other
    IN IF statusCode.isString THEN "invalid_request_error"
       ELSE IF statusCode.n >= 400 /\ statusCode.n < 500
            THEN table(statusCode.n, "invalid_request_error")
       ELSE IF statusCode.n >= 500 THEN table(statusCode.n, "server_error")
       ELSE "invalid_request_error"

\* the payload of handleError: { error: { type, message, code, suggestions, details } }
handleError(error) ==
    LET statusCode == FirstTruthy(<<error.responseStatus, error.status, error.code>>,
                                  error.codeIsString)
    IN [keys |-> {"error"}, type |-> "absent",
        errorKeys |-> {"type", "message", "code", "suggestions"}
                          \cup (IF error.responseStatus # 0 THEN {"details"} ELSE {}),
        errorType |-> getErrorType(statusCode)]

\* createErrorResponse and the data of createStreamErrorResponse, prefix 'claude'
createErrorResponse(error) ==
    LET statusCode == FirstTruthy(<<error.status, error.code>>, error.codeIsString)
    IN [keys |-> {"type", "error"}, type |-> "error", errorKeys |-> {"type", "message"},
        errorType |-> getErrorType(statusCode)]

\* the 401 of the request handler: { error: { message } }
UnauthorizedBody ==
    [keys |-> {"error"}, type |-> "absent", errorKeys |-> {"message"}, errorType |-> "absent"]

ThrownErrors ==
    [responseStatus : {0, 400, 429}, status : {0, 401, 503}, code : {0, 504},
     codeIsString : BOOLEAN]

\* the object literal handed to handleError when getApiService throws
ServiceFailure == [responseStatus |-> 0, status |-> 0, code |-> 0, codeIsString |-> FALSE]

\* a request that is about to fail at one of the stages of the handler
InitError ==
    /\ FreshPool /\ ps = IdlePs /\ bs = IdleBs /\ sh = IdleSh
    /\ au = Off /\ dp = Off /\ tc = Off
    /\ er \in {[pc |-> "failing", stage |-> "authentication", error |-> ServiceFailure],
               [pc |-> "failing", stage |-> "service", error |-> ServiceFailure]}
              \cup [pc : {"failing"}, stage : {"unary", "stream", "uncaught"},
                    error : {e \in ThrownErrors : ~(e.codeIsString /\ e.code # 0)}]

\* the body written for the failure
ErrorRespond ==
    /\ er.pc = "failing"
    /\ er' = [pc |-> "responded", stage |-> er.stage, error |-> er.error,
              body |-> CASE er.stage = "authentication" -> UnauthorizedBody
                         [] er.stage \in {"service", "uncaught"} -> handleError(er.error)
                         [] er.stage \in {"unary", "stream"} -> createErrorResponse(er.error)]
    /\ UNCHANGED <<poolVars, ps, bs, sh, au, dp, tc>>

SpecError == InitError /\ [][ErrorRespond]_vars

\* the errors of an upstream call: no response, HTTP 400, HTTP 429
UpstreamErrors ==
    {e \in ThrownErrors : e.status = 0 /\ e.code = 0 /\ ~e.codeIsString}

\* handleStreamRequest / handleUnaryRequest: generation throws error; the
\* catch block marks and then writes the body made of the error
ReqFailWith(r, error) ==
    /\ ReqCatch(r)
    /\ er' = [pc |-> "responded", stage |-> "unary", error |-> error,
              body |-> createErrorResponse(error)]

\* Requests over a fresh pool whose generation ends cleanly or throws one of
\* the upstream errors
NextUpstream ==
    \/ \E r \in Slots, m \in Models : ReqArrive(r, TRUE, m)
    \/ \E r \in Slots : ReqDispatch(r)
    \/ \E r \in Slots : ReqSucceed(r)
    \/ \E r \in Slots, e \in UpstreamErrors : ReqFailWith(r, e)
    \/ Tick

SpecUpstream == InitFair /\ [][NextUpstream]_vars

(***************************************************************************)
(* KiroAuthManager of one account.  A credentials object is held by the    *)
(* keys the code reads and one unrelated key (clientId); Null is a key     *)
(* that is absent or undefined, which JSON.stringify drops.  A file that   *)
(* does not exist reads as no credentials.  Tokens are numbers.            *)
(***************************************************************************)
NoCreds ==
    [accessToken |-> Null, refreshToken |-> Null, expiresAt |-> Null, profileArn |-> Null,
     clientId |-> Null]

KeysOf(obj) == {k \in DOMAIN obj : obj[k] # Null}

\* Object.assign(target, source) and { ...target, ...source }, keys being the
\* keys of source
ObjectAssign(target, source, keys) ==
    [k \in DOMAIN target |-> IF k \in keys THEN source[k] ELSE target[k]]

\* initializeAuth, the loading of credentials: the Base64 blob, the target
\* file, then every other JSON file of the directory, whose keys overwrite
\* those read before except expiresAt; a field already set is kept
LoadCredentials(mem, base64Creds, targetFile, otherFile) ==
    LET fromBase64 == ObjectAssign(NoCreds, base64Creds, KeysOf(base64Creds))
        fromTarget == ObjectAssign(fromBase64, targetFile, KeysOf(targetFile))
        credentials == [otherFile EXCEPT !.expiresAt = fromTarget.expiresAt]
        mergedCredentials ==
            IF otherFile = NoCreds THEN fromTarget
            ELSE ObjectAssign(fromTarget, credentials, KeysOf(otherFile) \cup {"expiresAt"})
    IN [k \in DOMAIN mem |-> IF mem[k] # Null THEN mem[k] ELSE mergedCredentials[k]]

\* expiresIn undefined taken as 0
NewExpiresAtOrNow(t, expiresIn) == IF expiresIn = Null THEN t ELSE t + expiresIn

\* new Date(Date.now() + expiresIn * 1000).toISOString(); Null: expiresIn is
\* undefined, the sum is NaN and toISOString throws RangeError
NewExpiresAt(t, expiresIn) == IF expiresIn = Null THEN Null ELSE t + expiresIn

\* the bodies of the refresh endpoint's answers; ok = FALSE: no 2xx answer
NoResponse ==
    [ok |-> FALSE, accessToken |-> Null, refreshToken |-> Null, profileArn |-> Null,
     expiresIn |-> Null]

RefreshResponses ==
    {NoResponse}
    \cup [ok : {TRUE}, accessToken : {Null, 2}, refreshToken : {2}, profileArn : {Null, 5},
          expiresIn : {Null, 1}]

IdleAuth(credsFile, base64Creds, otherFile) ==
    [pc |-> "idle", mem |-> NoCreds, base64Creds |-> base64Creds, file |-> credsFile,
     otherFile |-> otherFile, response |-> NoResponse, at |-> Null, newData |-> NoCreds,
     existingData |-> NoCreds, fileBefore |-> credsFile, outcome |-> "none", n |-> 0,
     beats |-> 0]

\* a manager just constructed, the credentials file of its account, the blob
\* given at start-up and the directory of the file
InitAuth ==
    /\ FreshPool /\ ps = IdlePs /\ bs = IdleBs /\ sh = IdleSh
    /\ er = Off /\ dp = Off /\ tc = Off
    /\ \E credsFile \in {NoCreds} \cup [accessToken : {1}, refreshToken : {1}, expiresAt : {1},
                                   profileArn : {Null, 5}, clientId : {Null, 7}],
          base64Creds \in {NoCreds, [NoCreds EXCEPT !.accessToken = 4, !.refreshToken = 4,
                                                    !.expiresAt = 1]},
          otherFile \in {NoCreds, [NoCreds EXCEPT !.accessToken = 3, !.refreshToken = 3,
                                                  !.expiresAt = 1, !.clientId = 8]} :
          au = IdleAuth(credsFile, base64Creds, otherFile)

authFrame == <<poolVars, ps, bs, sh, er, dp, tc>>

\* initializeAuth(forceRefresh) up to the POST of the refresh request
InitializeAuth(forceRefresh) ==
    /\ au.pc = "idle" /\ au.n < MaxRefreshes
    /\ IF au.mem.accessToken # Null /\ ~forceRefresh
       THEN au' = [au EXCEPT !.outcome = "returned", !.n = @ + 1]
       ELSE LET mem == LoadCredentials(au.mem, au.base64Creds, au.file, au.otherFile)
                loaded == [au EXCEPT !.mem = mem, !.base64Creds = NoCreds, !.n = @ + 1]
            IN IF forceRefresh \/ (mem.accessToken = Null /\ mem.refreshToken # Null)
               THEN IF mem.refreshToken = Null
                    THEN au' = [loaded EXCEPT !.outcome = "raised"]
                    ELSE au' = [loaded EXCEPT !.pc = "posting", !.outcome = "none"]
               ELSE au' = [loaded EXCEPT !.outcome =
                              IF mem.accessToken = Null THEN "raised" ELSE "returned"]
    /\ UNCHANGED authFrame

\* the answer to the refresh request arrives
RefreshResponse(response) ==
    /\ au.pc = "posting"
    /\ LET answered == [au EXCEPT !.response = response, !.at = now, !.fileBefore = au.file]
           adopted == [au.mem EXCEPT !.accessToken = response.accessToken,
                                     !.refreshToken = response.refreshToken,
                                     !.profileArn = response.profileArn]
           expiresAt == NewExpiresAt(now, response.expiresIn)
       IN IF ~response.ok \/ response.accessToken = Null
          THEN au' = [answered EXCEPT !.pc = "idle", !.outcome = "raised"]
          ELSE IF expiresAt = Null
          THEN au' = [answered EXCEPT !.pc = "idle", !.outcome = "raised", !.mem = adopted]
          ELSE au' = [answered EXCEPT !.pc = "reading",
                                      !.mem = [adopted EXCEPT !.expiresAt = expiresAt],
                                      !.newData = [adopted EXCEPT !.expiresAt = expiresAt,
                                                                  !.clientId = Null]]
    /\ UNCHANGED authFrame

\* saveCredentialsToFile: the file is read; a read that fails leaves {}
SaveCredentialsRead(readable) ==
    /\ au.pc = "reading"
    /\ au' = [au EXCEPT !.pc = "writing",
                        !.existingData = IF readable THEN au.file ELSE NoCreds]
    /\ UNCHANGED authFrame

\* saveCredentialsToFile: the merged data is written; a write that fails is
\* logged and initializeAuth returns all the same
SaveCredentialsWrite(written) ==
    /\ au.pc = "writing"
    /\ LET mergedData ==
               ObjectAssign(au.existingData, au.newData,
                            {"accessToken", "refreshToken", "expiresAt"}
                                \cup (IF au.newData.profileArn # Null THEN {"profileArn"} ELSE {}))
       IN au' = [au EXCEPT !.pc = "idle", !.outcome = "refreshed",
                           !.file = IF written THEN mergedData ELSE au.file]
    /\ UNCHANGED authFrame

NextAuth ==
    \/ \E forceRefresh \in BOOLEAN : InitializeAuth(forceRefresh)
    \/ \E response \in RefreshResponses : RefreshResponse(response)
    \/ \E readable \in BOOLEAN : SaveCredentialsRead(readable)
    \/ \E written \in BOOLEAN : SaveCredentialsWrite(written)
    \/ Tick

SpecAuth == InitAuth /\ [][NextAuth]_vars

\* the methods of KiroApiServiceAdapter and of its base class
AdapterMethods ==
    {"generateContent", "generateContentStream", "listModels", "refreshToken", "getUsageLimits"}

\* isExpiryDateNear: expiresAt <= now + nearMinutes; new Date(null) is the epoch
IsExpiryDateNear(expiresAt, t) == expiresAt <= t + cronNearMinutes

\* heartbeatAndRefreshToken, the iteration for the adapter of this manager:
\* serviceAdapter.checkToken() is called; a method the adapter does not have
\* makes the call throw TypeError, which the catch block logs
Heartbeat ==
    /\ au.pc = "idle" /\ au.beats < MaxRefreshes
    /\ IF "checkToken" \in AdapterMethods /\ IsExpiryDateNear(au.mem.expiresAt, now)
       THEN LET mem == LoadCredentials(au.mem, au.base64Creds, au.file, au.otherFile)
            IN au' = [au EXCEPT !.beats = @ + 1, !.mem = mem, !.base64Creds = NoCreds,
                                !.pc = IF mem.refreshToken = Null THEN "idle" ELSE "posting",
                                !.outcome = IF mem.refreshToken = Null THEN "raised" ELSE "none"]
       ELSE au' = [au EXCEPT !.beats = @ + 1]
    /\ UNCHANGED authFrame

\* The manager with the heartbeat timer set (CRON_REFRESH_TOKEN)
NextHeartbeat ==
    \/ \E forceRefresh \in BOOLEAN : InitializeAuth(forceRefresh)
    \/ \E response \in RefreshResponses : RefreshResponse(response)
    \/ \E readable \in BOOLEAN : SaveCredentialsRead(readable)
    \/ \E written \in BOOLEAN : SaveCredentialsWrite(written)
    \/ Heartbeat
    \/ Tick

SpecHeartbeat == InitAuth /\ [][NextHeartbeat]_vars

(***************************************************************************)
(* Kiro Builder ID device-code authorisation.  The clock counts poll       *)
(* intervals (5 s); a start request is a call of                           *)
(* handleKiroBuilderIDDeviceCode and becomes a polling task once the       *)
(* device authorisation is answered.  Timers fire on time and a token      *)
(* request is answered within the tick it was sent in.                     *)
(***************************************************************************)
Starts == 1..MaxStarts

NoTask ==
    [pc |-> "idle", shouldStop |-> FALSE, inMap |-> FALSE, attempts |-> 0, wake |-> Null,
     started |-> Null, expiresIn |-> Null, wrote |-> FALSE]

InitPoll ==
    /\ FreshPool /\ ps = IdlePs /\ bs = IdleBs /\ sh = IdleSh
    /\ er = Off /\ au = Off /\ tc = Off
    /\ dp = [h \in Starts |-> NoTask]

pollFrame == <<providerStatus, pendingSave, saveTimer, flushes, file, reqs, reqCount, hc,
               uiProbe, uiCount, failStreak, lastMutation, ps, bs, sh, er, au, tc>>

\* stopKiroPollingTask on every task of activeKiroPollingTasks
StopKiroPollingTasks(tasks) ==
    [h \in DOMAIN tasks |->
        IF tasks[h].inMap THEN [tasks[h] EXCEPT !.shouldStop = TRUE, !.inMap = FALSE]
        ELSE tasks[h]]

\* poll(): the checks made before a token request is sent
Poll(task) ==
    IF task.shouldStop THEN [task EXCEPT !.pc = "cancelled"]
    ELSE IF task.attempts >= pollExpiresIn \div pollInterval
         THEN [task EXCEPT !.pc = "expired", !.inMap = FALSE]
    ELSE [task EXCEPT !.pc = "fetching", !.attempts = @ + 1]

\* handleKiroBuilderIDDeviceCode up to its first await: the tasks of the map
\* are stopped
StartDeviceCode(h) ==
    /\ dp[h].pc = "idle"
    /\ \A g \in 1..(h - 1) : dp[g].pc # "idle"
    /\ dp' = [StopKiroPollingTasks(dp) EXCEPT ![h].pc = "authorizing"]
    /\ UNCHANGED <<now, pollFrame>>

\* client registration or device authorisation is refused: the handler throws
DeviceAuthRefused(h) ==
    /\ dp[h].pc = "authorizing"
    /\ dp' = [dp EXCEPT ![h].pc = "failed"]
    /\ UNCHANGED <<now, pollFrame>>

\* device authorisation is answered with expiresIn; pollKiroBuilderIDToken is
\* called with interval 5 and expiresIn 300, puts its task in the map and
\* sends the first token request
DeviceAuthorized(h, expiresIn) ==
    /\ dp[h].pc = "authorizing"
    /\ dp' = [dp EXCEPT ![h] = Poll([@ EXCEPT !.inMap = TRUE, !.started = now,
                                              !.expiresIn = expiresIn])]
    /\ UNCHANGED <<now, pollFrame>>

\* the token endpoint answers, or the request fails ("network")
TokenAnswer(h, answer) ==
    /\ dp[h].pc = "fetching"
    /\ dp' = [dp EXCEPT ![h] =
                CASE answer = "token" -> [@ EXCEPT !.pc = "done", !.inMap = FALSE, !.wrote = TRUE]
                  [] answer \in {"authorization_pending", "network"} ->
                        [@ EXCEPT !.pc = "sleeping", !.wake = now + pollInterval]
                  [] answer = "slow_down" ->
                        [@ EXCEPT !.pc = "sleeping", !.wake = now + pollInterval + slowDownExtra]
                  [] answer = "access_denied" -> [@ EXCEPT !.pc = "failed", !.inMap = FALSE]]
    /\ UNCHANGED <<now, pollFrame>>

\* the sleep is over and poll() is called again
PollWake(h) ==
    /\ dp[h].pc = "sleeping" /\ now >= dp[h].wake
    /\ dp' = [dp EXCEPT ![h] = Poll(@)]
    /\ UNCHANGED <<now, pollFrame>>

TickPoll ==
    /\ now < MaxPollClock
    /\ \A h \in Starts : /\ dp[h].pc # "fetching"
                         /\ dp[h].pc = "sleeping" => now < dp[h].wake
    /\ now' = now + 1
    /\ UNCHANGED <<dp, pollFrame>>

NextPoll ==
    \/ \E h \in Starts : StartDeviceCode(h)
    \/ \E h \in Starts : DeviceAuthRefused(h)
    \/ \E h \in Starts, expiresIn \in {2, 3} : DeviceAuthorized(h, expiresIn)
    \/ \E h \in Starts, answer \in {"token", "authorization_pending", "network", "slow_down",
                                    "access_denied"} : TokenAnswer(h, answer)
    \/ \E h \in Starts : PollWake(h)
    \/ TickPoll

SpecPoll == InitPoll /\ [][NextPoll]_vars

(***************************************************************************)
(* deduplicateToolCalls.  A recovered tool call is what parseSingleToolCall *)
(* returns: a fresh id, a name matched by \w+ and, as arguments, the        *)
(* JSON.stringify of an object; strings are sequences of characters.        *)
(***************************************************************************)
RECURSIVE DedupeLoop(_, _, _)
DedupeLoop(toolCalls, seen, uniqueToolCalls) ==
    IF toolCalls = <<>> THEN uniqueToolCalls
    ELSE LET call == Head(toolCalls)
             key == call.name \o <<"-">> \o call.arguments
         IN IF key \notin seen
            THEN DedupeLoop(Tail(toolCalls), seen \cup {key}, Append(uniqueToolCalls, call))
            ELSE DedupeLoop(Tail(toolCalls), seen, uniqueToolCalls)

\* no call is skipped
KeepAllToolCalls(toolCalls) == toolCalls

deduplicateToolCalls(toolCalls) == DedupeLoop(toolCalls, {}, <<>>)

RECURSIVE RecoveredToolCalls(_)
RecoveredToolCalls(n) ==
    IF n = 0 THEN {<<>>}
    ELSE RecoveredToolCalls(n - 1)
         \cup {Append(l, [id |-> Len(l) + 1, name |-> name, arguments |-> arguments]) :
                 l \in {x \in RecoveredToolCalls(n - 1) : Len(x) = n - 1},
                 name \in {<<"a">>, <<"a", "b">>},
                 arguments \in {<<"{", "}">>, <<"{", "b", "-", "}">>}}

InitDedupe ==
    /\ FreshPool /\ ps = IdlePs /\ bs = IdleBs /\ sh = IdleSh
    /\ er = Off /\ au = Off /\ dp = Off
    /\ tc \in [pc : {"parsed"}, toolCalls : RecoveredToolCalls(MaxToolCalls)]

\* the list is deduplicated, and so is the list followed by itself
Deduplicate ==
    /\ tc.pc = "parsed"
    /\ tc' = [pc |-> "deduplicated", toolCalls |-> tc.toolCalls,
              unique |-> deduplicateToolCalls(tc.toolCalls),
              twice |-> deduplicateToolCalls(tc.toolCalls \o tc.toolCalls)]
    /\ UNCHANGED <<poolVars, ps, bs, sh, er, au, dp>>

SpecDedupe == InitDedupe /\ [][Deduplicate]_vars

(***************************************************************************)
(* Properties                                                              *)
(***************************************************************************)
AccountOf(u) == providerStatus[FindProvider(providerStatus, u)]

\* a step in which handler r obtains an account from selectProvider
InitialSelect(r) == reqs[r].pc = "idle" /\ reqs'[r].pc = "body"
ReSelect(r) == reqs[r].pc = "body" /\ reqs'[r].pc = "serving"
Finished(r) == reqs[r].pc = "serving" /\ reqs'[r].pc = "idle"

\* C1: in every reachable pool state, an account is unhealthy exactly when
\* its errorCount has reached maxErrorCount.
C1_ErrorBudgetIff ==
    \A i \in 1..Len(providerStatus) :
        (~providerStatus[i].isHealthy) <=> (providerStatus[i].errorCount >= maxErrorCount)

\* C2: when a pooled request finishes, the account that served it reflects
\* the outcome: healthy with errorCount 0 after a clean completion,
\* errorCount one higher after an exception.
C2_OutcomeMarked ==
    [][\A r \in Slots : Finished(r) =>
          LET i == FindProvider(providerStatus, reqs[r].uuid)
          IN i # 0 =>
               IF failStreak'.n = 0
               THEN providerStatus'[i].isHealthy /\ providerStatus'[i].errorCount = 0
               ELSE providerStatus'[i].errorCount = providerStatus[i].errorCount + 1]_vars

\* C3: the third of three successive failed requests served by one account
\* makes that account unhealthy, and a request dispatched after them is
\* served by another account.
C3_BudgetTrip ==
    [][/\ (failStreak'.n = maxErrorCount /\ failStreak.n = maxErrorCount - 1)
           => ~providerStatus'[FindProvider(providerStatus', failStreak'.uuid)].isHealthy
       /\ \A r \in Slots : (ReSelect(r) /\ failStreak.n = maxErrorCount)
           => reqs'[r].uuid # failStreak.uuid]_vars

C7_SelectEligibleOnly ==
    [][\A r \in Slots :
          /\ InitialSelect(r) =>
                LET c == AccountOf(reqs'[r].pooluuid) IN c.isHealthy /\ ~c.isDisabled
          /\ ReSelect(r) =>
                LET c == AccountOf(reqs'[r].uuid)
                IN c.isHealthy /\ ~c.isDisabled /\ reqs[r].model \notin c.notSupportedModels]_vars

\* a request is being served although another account was ineligible for it
C7_Witness ==
    \E r \in Slots : /\ reqs[r].pc = "serving"
                      /\ \E i \in 1..NumAccounts :
                            /\ providerStatus[i].uuid # reqs[r].uuid
                            /\ \/ ~providerStatus[i].isHealthy
                               \/ providerStatus[i].isDisabled
                               \/ reqs[r].model \in providerStatus[i].notSupportedModels

\* (lastUsed, usageCount) of a is lexicographically at most that of b, a
\* never-used account counting as time 0
LexLeq(a, b) ==
    LET ta == IF a.lastUsed = Null THEN 0 ELSE a.lastUsed
        tb == IF b.lastUsed = Null THEN 0 ELSE b.lastUsed
    IN ta < tb \/ (ta = tb /\ a.usageCount <= b.usageCount)

EligibleFor(c, m) ==
    c.isHealthy /\ ~c.isDisabled /\ (m # NoModel => m \notin c.notSupportedModels)

\* C8: whenever some account is eligible, selectProvider returns an eligible
\* account whose (lastUsed, usageCount) is lexicographically minimal among
\* the eligible accounts.
C8_SelectLruMinimal ==
    [][\A r \in Slots :
          /\ InitialSelect(r) =>
                \A j \in 1..Len(providerStatus) : EligibleFor(providerStatus[j], NoModel)
                    => LexLeq(AccountOf(reqs'[r].pooluuid), providerStatus[j])
          /\ ReSelect(r) =>
                \A j \in 1..Len(providerStatus) : EligibleFor(providerStatus[j], reqs[r].model)
                    => LexLeq(AccountOf(reqs'[r].uuid), providerStatus[j])
          /\ (reqs[r].pc = "body" /\ reqs'[r].pc = "idle") =>
                \A j \in 1..Len(providerStatus) : ~EligibleFor(providerStatus[j], reqs[r].model)]_vars

\* a request is being served by the later account of the pool while an
\* earlier account is eligible too but was used more recently
C8_Witness ==
    \E r \in Slots : /\ reqs[r].pc = "serving"
                      /\ \E i, j \in 1..NumAccounts :
                            /\ i < j /\ providerStatus[j].uuid = reqs[r].uuid
                            /\ EligibleFor(providerStatus[i], reqs[r].model)
                            /\ EligibleFor(providerStatus[j], reqs[r].model)
                            /\ providerStatus[i].lastUsed # Null
                            /\ providerStatus[j].lastUsed # Null
                            /\ providerStatus[i].lastUsed > providerStatus[j].lastUsed

\* C4: for every split of a valid stream into B and B', the events of
\* parsing B followed by those of parsing remaining + B' are exactly the
\* events of one parse of B + B', in the same order.
C4_SplitEquivalence ==
    ps.pc = "done" => ps.events = parseAwsEventStreamBuffer(ps.stream).events

RoleSequence == [i \in 1..Len(bs.out.history) |-> bs.out.history[i].role] \o <<"user">>

\* C9: for every request the builder accepts, the roles of the history
\* followed by the current message alternate user, assistant, user, ...,
\* starting with user and ending with user.
C9_RolesAlternate ==
    bs.pc = "built" =>
        /\ Len(RoleSequence) % 2 = 1
        /\ \A i \in 1..Len(RoleSequence) :
              RoleSequence[i] = IF i % 2 = 1 THEN "user" ELSE "assistant"

\* C10: for a request with a non-empty system string and one user message,
\* the history is empty and the content of the current message is the system
\* text, two newlines, then the user text.
C10_SystemFoldedIntoCurrent ==
    (/\ bs.pc = "built"
     /\ bs.system # <<>>
     /\ Len(bs.messages) = 1
     /\ bs.messages[1].role = "user"
     /\ bs.messages[1].content.kind = "string"
     /\ bs.messages[1].content.text # <<>>)
    => /\ bs.out.history = <<>>
       /\ bs.out.current.content = bs.system \o <<"\n\n">> \o bs.messages[1].content.text

\* the final message is the assistant sentinel [{type: "text", text: "{"}] and
\* no other message carries a brace
FinalIsSentinel ==
    LET n == Len(bs.messages)
    IN /\ bs.messages[n].role = "assistant"
       /\ bs.messages[n].content = ArrayContent(<<TextPart(<<"{">>)>>)
       /\ \A i \in 1..(n - 1) : bs.messages[i].content # ArrayContent(<<TextPart(<<"{">>)>>)

\* C11: for a request whose final message is an assistant message with
\* content [{type: "text", text: "{"}], the request is built, that message
\* appears nowhere in the envelope and the content of the current message is
\* "Continue".
C11_SentinelDropped ==
    (bs.pc # "request" /\ bs.pc # "off" /\ FinalIsSentinel)
    => /\ bs.pc = "built"
       /\ \A i \in 1..Len(bs.out.history) :
             \A k \in 1..Len(bs.out.history[i].content) : bs.out.history[i].content[k] # "{"
       /\ bs.out.current.content = <<"Continue">>

\* the frames whose payload is {"content":"..."}; the string value lies
\* between the quotes at positions 13 and Len(f) - 1 of the frame
ContentFrames ==
    {f \in Frames : SubSeq(f, 2, 12) = <<"{", "\"", "c", "o", "n", "t", "e", "n", "t", "\"", ":">>}

\* C12: when the last payload of the stream is a content payload and the two
\* reads split it inside its content string, the first read emits no event
\* for it (only those of the payloads before it), and the read of the
\* retained buffer plus the continuation adds exactly one content event
\* carrying the full content.
C12_SplitContentEmittedOnce ==
    \A f \in ContentFrames :
        LET p == Len(ps.stream) - Len(f)
            before == parseAwsEventStreamBuffer(SubSeq(ps.stream, 1, p)).events
            whole == StreamEvent("content", [t |-> "string", v |-> SubSeq(f, 14, Len(f) - 2)],
                                 JsonUndefined, JsonUndefined, JsonUndefined, JsonUndefined)
        IN (/\ p >= 0
            /\ SubSeq(ps.stream, p + 1, Len(ps.stream)) = f
            /\ ps.cut - p >= 13 /\ ps.cut - p <= Len(f) - 2)
           => /\ ps.pc = "fed" => ps.events = before
              /\ ps.pc = "done" => ps.events = Append(before, whole)

\* the health flag, the error fields and the counters of an account
HealthView(c) ==
    [isHealthy |-> c.isHealthy, errorCount |-> c.errorCount, lastErrorTime |-> c.lastErrorTime,
     lastErrorMessage |-> c.lastErrorMessage, usageCount |-> c.usageCount]

\* C13: in every reachable pool state and for every account, applying
\* markProviderHealthy twice in succession (same arguments, either value of
\* resetUsageCount) leaves the health flag, the error fields and the counters
\* as applying it once does.
C13_MarkHealthyIdempotent ==
    \A i \in 1..Len(providerStatus) : \A resetUsageCount \in BOOLEAN :
        LET once == MarkHealthyAt(providerStatus, i, resetUsageCount, "m1", now)
            twice == MarkHealthyAt(once, i, resetUsageCount, "m1", now)
        IN HealthView(twice[i]) = HealthView(once[i])

\* the account is healthy and its error fields are cleared
Restored(c) ==
    c.isHealthy /\ c.errorCount = 0 /\ c.lastErrorTime = Null /\ c.lastErrorMessage = NoMsg

\* C14: when an account is unhealthy, a successful probe through it (periodic
\* or on demand) or an explicit reset (reset-health, resetProviderCounters)
\* leaves it with isHealthy = TRUE and errorCount, lastErrorTime and
\* lastErrorMessage cleared.
C14_RecoveryRestores ==
    [][\A i \in 1..Len(providerStatus) :
          (/\ ~providerStatus[i].isHealthy
           /\ \/ hc.idx = i /\ HcResult(TRUE)
              \/ uiProbe = i /\ UiHealthCheckResult(TRUE)
              \/ hc.idx = i /\ HcNotChecked
              \/ UiResetHealth)
          => Restored(providerStatus'[i])]_vars

\* C15: no step sends a health probe, periodic (performHealthChecks) or on
\* demand (UI health check), through an account whose isDisabled flag is
\* TRUE.
C15_NoProbeOnDisabled ==
    [][/\ (~hc.wait /\ hc'.wait) => ~providerStatus[hc'.idx].isDisabled
       /\ (uiProbe = 0 /\ uiProbe' # 0) => ~providerStatus[uiProbe'].isDisabled]_vars

\* C16: at most one execution of _flushPendingSaves is in progress at any
\* instant: no flush starts while the readFile or the writeFile of an
\* earlier flush is pending.
C16_SingleFlush == Len(flushes) <= 1

\* C17: no write of the pool file changes its shape: a file read as an object
\* keyed by the provider type stays an object, a bare array stays a bare
\* array, whichever of the debounced flush, enable/disable, add, update or
\* delete writes it.
C17_FileShapePreserved == [][file'.shape = file.shape]_vars

\* C18: in every reachable pool state no two accounts share a uuid, and a step
\* that keeps the number of accounts (update, mark, select, enable/disable,
\* reload) keeps the uuid of every account.
C18_UuidUniqueAndStable ==
    [][/\ \A i, j \in 1..Len(providerStatus') :
             i # j => providerStatus'[i].uuid # providerStatus'[j].uuid
       /\ Len(providerStatus') = Len(providerStatus)
             => \A i \in 1..Len(providerStatus) : providerStatus'[i].uuid = providerStatus[i].uuid]_vars

RECURSIVE FlattenEvents(_)
FlattenEvents(chunks) ==
    IF chunks = <<>> THEN <<>> ELSE Head(chunks).events \o FlattenEvents(Tail(chunks))

C21_ErrorBodiesClaudeShaped ==
    er.pc = "responded" =>
        /\ er.body.type = "error"
        /\ {"type", "message"} \subseteq er.body.errorKeys
        /\ er.body.errorType \in ErrorKinds

C23_ExpiryKeptWithoutExpiresIn ==
    [][\A response \in RefreshResponses :
          (/\ RefreshResponse(response)
           /\ response.ok /\ response.accessToken # Null /\ response.expiresIn = Null)
          => /\ au'.mem.expiresAt = au.mem.expiresAt
             /\ au'.file.expiresAt = au.file.expiresAt
             /\ au'.pc = "idle"]_vars

\* such an answer has been handled by a manager that held an expiry
C23_Witness ==
    /\ au.pc = "idle" /\ au.outcome = "raised"
    /\ au.response.ok /\ au.response.accessToken # Null /\ au.response.expiresIn = Null
    /\ au.mem.expiresAt # Null /\ au.mem.accessToken = au.response.accessToken

\* C24: after a successful refresh the credentials file holds the new
\* accessToken and refreshToken and expiresAt = now + expiresIn, and every key
\* it held before that is not a refreshed field (accessToken, refreshToken,
\* expiresAt, profileArn) has kept its value
C24_FileAfterRefresh ==
    (au.pc = "idle" /\ au.outcome = "refreshed") =>
        /\ au.file.accessToken = au.response.accessToken
        /\ au.file.refreshToken = au.response.refreshToken
        /\ au.file.expiresAt = au.at + au.response.expiresIn
        /\ \A k \in DOMAIN au.file \ {"accessToken", "refreshToken", "expiresAt", "profileArn"} :
              au.fileBefore[k] # Null => au.file[k] = au.fileBefore[k]

\* C25: at most one device-code polling task is active (polling and not
\* stopped) at any time, under any interleaving of start requests
C25_OnePollingTask ==
    Cardinality({h \in Starts : dp[h].pc \in {"fetching", "sleeping"} /\ ~dp[h].shouldStop}) <= 1

\* C26: a poll that has received no access token is no longer polling once
\* the expiresIn answered by the device authorisation has elapsed since it
\* started
C26_PollEndsByExpiry ==
    \A h \in Starts :
        dp[h].pc \in {"fetching", "sleeping"} /\ ~dp[h].shouldStop
            => now <= dp[h].started + dp[h].expiresIn

RECURSIVE UsageSum(_)
UsageSum(pool) == IF pool = <<>> THEN 0 ELSE Head(pool).usageCount + UsageSum(Tail(pool))

\* C27: for one request, the initial selection raises the sum of usageCount
\* over the accounts by exactly 1 and the re-selection for the model, made
\* with skipUsageCount, leaves every usageCount as it is
C27_OneChargePerRequest ==
    [][/\ (\E r \in Slots, a \in BOOLEAN, m \in Models :
              ReqArrive(r, a, m) /\ GetApiServiceSelect(providerStatus) # 0)
          => UsageSum(providerStatus') = UsageSum(providerStatus) + 1
       /\ (\E r \in Slots : ReqDispatch(r))
          => \A i \in 1..Len(providerStatus) :
                providerStatus'[i].usageCount = providerStatus[i].usageCount]_vars

\* a request was charged to one account and re-selected onto another
C27_Witness ==
    \E r \in Slots : /\ reqs[r].pc = "serving" /\ reqs[r].uuid # reqs[r].pooluuid
                     /\ UsageSum(providerStatus) = reqCount

\* C28: deduplicating a list of recovered tool calls followed by itself gives
\* what deduplicating the list gives, and the result is the first occurrence
\* of each (name, arguments) pair of the list, in the order of the list
C28_DedupeIdempotent ==
    tc.pc = "deduplicated" =>
        LET xs == tc.toolCalls
            first == {i \in 1..Len(xs) :
                        \A j \in 1..(i - 1) : <<xs[j].name, xs[j].arguments>>
                                                 # <<xs[i].name, xs[i].arguments>>}
        IN /\ tc.twice = tc.unique
           /\ Len(tc.unique) = Cardinality(first)
           /\ \A k \in 1..Len(tc.unique) :
                 /\ tc.unique[k].id \in first
                 /\ tc.unique[k] = xs[tc.unique[k].id]
                 /\ \A l \in 1..(k - 1) : tc.unique[l].id < tc.unique[k].id

\* a list with a repeated pair has been deduplicated
C28_Witness ==
    /\ tc.pc = "deduplicated"
    /\ Len(tc.unique) >= 2 /\ Len(tc.unique) < Len(tc.toolCalls)

\* C29: when the parse of a chunk finds the signature of a payload and reaches
\* the end of the chunk before the closing brace, the remaining it returns is
\* the chunk from the opening brace of that payload to its end, however many
\* complete payloads the chunk holds before it
C29_RetainedFromOpeningBrace ==
    ps.pc = "fed" =>
        LET B == SubSeq(ps.stream, 1, ps.cut)
            heads == {i \in 1..ps.cut : ps.stream[i] = "#"}
            h == CHOOSE i \in heads : \A j \in heads : j <= i
        IN (/\ heads # {}
            /\ \E sig \in Signatures : IndexOf(B, sig, h) = h + 1
            /\ ScanJsonEnd(B, h + 1, 0, FALSE, FALSE) = 0)
           => ps.remaining = SubSeq(B, h + 1, ps.cut)

\* C30: an unhealthy account with checkHealth on whose last error has become
\* older than healthCheckInterval is eventually probed and, its upstream
\* having recovered, becomes healthy again without operator action
C30_ProbeRecurs ==
    \A i \in 1..NumAccounts :
        (/\ providerStatus[i].checkHealth /\ ~providerStatus[i].isHealthy
         /\ providerStatus[i].lastErrorTime # Null
         /\ now - providerStatus[i].lastErrorTime >= healthCheckInterval)
        ~> providerStatus[i].isHealthy

\* C31: at a heartbeat, an adapter whose token satisfies the near-expiry
\* predicate has a refresh attempted through its auth manager
C31_HeartbeatRefreshes ==
    [][(Heartbeat /\ au.mem.refreshToken # Null /\ IsExpiryDateNear(au.mem.expiresAt, now))
          => au'.pc = "posting"]_vars

\* C32: once markProviderUnhealthy has left an account healthy (errorCount
\* below maxErrorCount), the next selection does not return that account if
\* another eligible account exists
C32_MarkedNotSelectedNext ==
    [][\A i \in 1..NumAccounts :
          (/\ \/ hc.idx = i /\ HcResult(FALSE)
              \/ \E r \in Slots : reqs[r].uuid = providerStatus[i].uuid /\ ReqFail(r)
           /\ providerStatus'[i].isHealthy
           /\ \E j \in 1..NumAccounts : j # i /\ IsEligible(providerStatus'[j], NoModel))
          => SelectIndex(providerStatus', NoModel) # i]_vars

\* C33: a request is given the account that is already serving another
\* request only if, at that selection, no other account eligible for its
\* model was less recently used
C33_SameAccountOnlyIfLru ==
    [][\A r, q \in Slots :
          (ReSelect(r) /\ q # r /\ reqs[q].pc = "serving" /\ reqs'[r].uuid = reqs[q].uuid)
          => \A j \in 1..Len(providerStatus) :
                EligibleFor(providerStatus[j], reqs[r].model)
                => LruTime(providerStatus[j]) >= LruTime(AccountOf(reqs[q].uuid))]_vars

\* two requests are being served by one account while another account,
\* eligible for both and used more recently, is in the pool
C33_Witness ==
    \E r, q \in Slots :
        /\ r # q /\ reqs[r].pc = "serving" /\ reqs[q].pc = "serving"
        /\ reqs[r].uuid = reqs[q].uuid
        /\ \E j \in 1..Len(providerStatus) :
              /\ providerStatus[j].uuid # reqs[r].uuid
              /\ EligibleFor(providerStatus[j], reqs[r].model)
              /\ EligibleFor(providerStatus[j], reqs[q].model)
              /\ LruTime(providerStatus[j]) > LruTime(AccountOf(reqs[r].uuid))

\* the error table: the kind of an HTTP status
ErrorTableKind(status) ==
    CASE status = 401 -> "authentication_error"
      [] status = 403 -> "permission_error"
      [] status = 429 -> "rate_limit_error"
      [] status \in {500, 502, 503} -> "server_error"
      [] status = 504 -> "timeout_error"
      [] status = 400 -> "invalid_request_error"

\* C34: the error kind of the body sent for a failed upstream call is the one
\* the error table gives for the failure: by HTTP status for a response with
\* an error status, network_error for a connect or TLS failure (no response,
\* a string code such as ECONNREFUSED)
C34_ErrorKindByTable ==
    (er.pc = "responded" /\ er.stage \in {"unary", "stream"}) =>
        LET e == er.error
        IN /\ (e.responseStatus # 0 /\ e.status \in {0, e.responseStatus} /\ e.code = 0)
                 => er.body.errorType = ErrorTableKind(e.responseStatus)
           /\ (e.responseStatus = 0 /\ e.status # 0 /\ e.code = 0)
                 => er.body.errorType = ErrorTableKind(e.status)
           /\ (e.responseStatus = 0 /\ e.status = 0 /\ e.code = 0 /\ e.codeIsString)
                 => er.body.errorType = "network_error"

\* C35: once the should-stop flag of a polling task is set, the task writes
\* no credentials file (and so adds no account and broadcasts no success),
\* also when a token request was in flight when the flag was set
C35_StoppedTaskWritesNothing ==
    [][\A h \in Starts : dp[h].shouldStop => dp'[h].wrote = dp[h].wrote]_vars

\* C36: handling a request whose API key is missing or wrong selects no
\* account and changes no account's usageCount, lastUsed, errorCount or
\* isHealthy
C36_UnauthorizedLeavesPool ==
    [][(\E r \in Slots, m \in Models : ReqArrive(r, FALSE, m))
          => /\ Len(providerStatus') = Len(providerStatus)
             /\ \A i \in 1..Len(providerStatus) :
                   /\ providerStatus'[i].usageCount = providerStatus[i].usageCount
                   /\ providerStatus'[i].lastUsed = providerStatus[i].lastUsed
                   /\ providerStatus'[i].errorCount = providerStatus[i].errorCount
                   /\ providerStatus'[i].isHealthy = providerStatus[i].isHealthy]_vars

\* C37: the manager holds no credential field taken from the credentials
\* file of another account (the values of that file occur nowhere else)
C37_NoForeignCredentials ==
    au.otherFile # NoCreds =>
        \A k \in {"accessToken", "refreshToken", "clientId"} : au.mem[k] # au.otherFile[k]

\* the manager and the credentials file hold the same tokens and expiry
TokensAgree(mem, credsFile) ==
    \A k \in {"accessToken", "refreshToken", "expiresAt"} : mem[k] = credsFile[k]

\* C38: when a refresh attempt ends, by returning or by raising, the
\* accessToken, refreshToken and expiresAt of the manager are those of the
\* credentials file (for an attempt that raises: if they were before it)
C38_MemoryEqualsFileAfterRefresh ==
    [][/\ ((\E response \in RefreshResponses : RefreshResponse(response))
             /\ au'.pc = "idle" /\ TokensAgree(au.mem, au.file))
          => TokensAgree(au'.mem, au'.file)
       /\ (\E written \in BOOLEAN : SaveCredentialsWrite(written))
          => TokensAgree(au'.mem, au'.file)]_vars

\* usageCount, lastUsed, errorCount and isHealthy of two configs are equal
SameCounters(a, b) ==
    \A k \in {"usageCount", "lastUsed", "errorCount", "isHealthy"} : a[k] = b[k]

\* C39: an add, update or delete made while counter mutations wait for the
\* debounced flush loses none of them: for every account that still exists
\* the pool in memory and the pool file carry the counters the pool had
C39_CrudKeepsPendingCounters ==
    [][(UiCrudActions /\ pendingSave)
          => \A u \in Uuids :
                LET i == FindProvider(providerStatus, u)
                    j == FindProvider(providerStatus', u)
                    k == FindProvider(NormalizeProviderPools(file'), u)
                IN (i # 0 /\ j # 0)
                   => /\ SameCounters(providerStatus'[j], providerStatus[i])
                      /\ k # 0 /\ SameCounters(NormalizeProviderPools(file')[k], providerStatus[i])]_vars

\* C40: the account that serves a request (and is named when its outcome is
\* marked) is the account charged by the initial selection, whenever that
\* account is eligible for the requested model at the re-selection
C40_ServedByChargedAccount ==
    [][\A r \in Slots :
          (ReSelect(r) /\ EligibleFor(AccountOf(reqs[r].pooluuid), reqs[r].model))
          => reqs'[r].uuid = reqs[r].pooluuid]_vars

====
